---- MODULE Spec2Model ----
(***************************************************************************)
(* Persistence and price-change detection layer of the price monitoring    *)
(* system: the two MongoDB managers (database/db_manager.py, "basic", and  *)
(* database/enhanced_db_manager.py, "enhanced") over the collections       *)
(* products, price_history and price_changes.                              *)
(*                                                                         *)
(* Numbers.  Prices are integers counted in thousandths of a currency unit *)
(* (100.00 Dhs = 100000), so that the detector's 0.01 tolerance is the     *)
(* integer Epsilon = 10 and sub-cent differences exist.  Quotients         *)
(* (percentage_change, avg_price, price_volatility) are exact fractions    *)
(* num/den; float rounding is not modelled.  Python's None is None (-1) in *)
(* numeric fields and NoStr in text fields; a key that a dict or document  *)
(* does not have is NoKey (-2).                                            *)
(***************************************************************************)
EXTENDS Integers, Sequences, FiniteSets, TLC

None == -1
NoKey == -2
NoStr == "None"

\* ---------------------------------------------------------------- bounds
MaxSnapshots == 3
MaxBatch == 2
MaxTime == 3
MaxAlerts == 2
MaxRetries == 3

\* ------------------------------------------------------- program constants
Epsilon == 10

Managers == {"enhanced", "basic"}
Ties == {"oldest", "newest"}

VARIABLES
    mgr,            \* which manager class the process instantiated
    products,       \* db.products: a set of documents
    price_history,  \* db.price_history: documents in insertion order, _id = index
    price_changes,  \* db.price_changes: documents in insertion order
    now,            \* datetime.utcnow(), in ticks
    lastCall,       \* the last call made on the manager and its arguments
    outcome,        \* "none" | "returned" | "raised"
    stats,          \* the statistics dict of the last save_products call
    result,         \* the list returned by the last read call
    users,          \* db.users: a set of documents
    user_alert_preferences,  \* db.user_alert_preferences: documents, _id = index
    alert_history,  \* db.alert_history: documents in insertion order
    backends,       \* the backends of the unified manager ({}: none constructed)
    sqlite_products,       \* SQLite table products: a set of rows
    sqlite_price_history,  \* SQLite table price_history: rows in insertion order
    success,        \* the value the last save_product call returned
    procs,          \* the two concurrent save calls: position, record and locals
    parPre,         \* the collections when the concurrent calls started
    raw_record,     \* the record last given to the product normalizer
    normalized,     \* the documents made from it: the first pass and those after
    fetch           \* the last get_page call of the scraper

vars == <<mgr, products, price_history, price_changes, now, lastCall, outcome, stats, result,
          users, user_alert_preferences, alert_history,
          backends, sqlite_products, sqlite_price_history, success, procs, parPre,
          raw_record, normalized, fetch>>

\* the scraper's page fetches
pageVars == <<fetch>>

\* the concurrent save calls
parVars == <<procs, parPre>>

\* the product normalizer's input and outputs
normVars == <<raw_record, normalized>>

\* the state of the unified manager and its SQLite backend
unifiedVars == <<backends, sqlite_products, sqlite_price_history, success>>

\* the collections of the alerting extension
alertVars == <<users, user_alert_preferences, alert_history>>

\* ------------------------------------------------------------ Python helpers
Truthy(x) == x # None /\ x # NoKey /\ x # 0

\* dict.get(key): an absent key reads as None
Get(x) == IF x = NoKey THEN None ELSE x

\* dict.get(key, default)
GetOr(x, default) == IF x = NoKey THEN default ELSE x

Abs(x) == IF x < 0 THEN 0 - x ELSE x

Min2(a, b) == IF a < b THEN a ELSE b

Max2(a, b) == IF a > b THEN a ELSE b

\* ------------------------------------------------------------ price text
\* A price field may hold a str instead of a float: the str PriceTexts[k] is the
\* value Text(k), a number below every float and every marker of the model.
PriceTexts ==
    << <<"1", "6", "9", ".", "0", "0", " ", "D", "h", "s", " ", "-", " ",
         "1", "7", "9", ".", "0", "0", " ", "D", "h", "s">>,
       <<"1", ",", "0", "9", "9", ".", "0", "0", " ", "D", "h", "s">>,
       <<"D", "h", "s">> >>

Text(k) == 0 - (10 + k)

IsText(x) == x < -10

TextOf(x) == PriceTexts[(0 - x) - 10]

Digits == {"0", "1", "2", "3", "4", "5", "6", "7", "8", "9"}

DigitValue(c) == CHOOSE d \in 0..9 : <<"0", "1", "2", "3", "4", "5", "6", "7", "8", "9">>[d + 1] = c

\* ' - ' in price_text
HasRangeSeparator(t) ==
    \E i \in 1..(Len(t) - 2) : t[i] = " " /\ t[i + 1] = "-" /\ t[i + 2] = " "

\* re.split(r'\s*[-]\s*', price_text)[0]: the text before the first hyphen
BeforeHyphen(t) ==
    LET first == CHOOSE i \in 1..Len(t) : t[i] = "-" /\ \A j \in 1..(i - 1) : t[j] # "-"
    IN SubSeq(t, 1, first - 1)

\* re.sub(r'[^\d,.]', '', ...) then replace(',', ''): digits and dots are kept
PriceClean(t) == SelectSeq(t, LAMBDA c : c \in Digits \cup {"."})

\* the digits of s read as a decimal number
RECURSIVE DecimalValue(_)
DecimalValue(s) ==
    IF s = <<>> THEN 0 ELSE DecimalValue(SubSeq(s, 1, Len(s) - 1)) * 10 + DigitValue(s[Len(s)])

\* float(price_clean) in thousandths, None on ValueError: at most one dot and
\* at least one digit (texts of the model have at most three decimals)
FloatOf(s) ==
    LET dots == {i \in 1..Len(s) : s[i] = "."}
    IN IF Cardinality(dots) > 1 \/ Len(s) = Cardinality(dots) THEN None
       ELSE IF dots = {} THEN DecimalValue(s) * 1000
       ELSE LET d == CHOOSE i \in dots : TRUE
                frac == SubSeq(s, d + 1, Len(s))
                pad == [i \in 1..3 |-> IF i <= Len(frac) THEN frac[i] ELSE "0"]
            IN DecimalValue(SubSeq(s, 1, d - 1)) * 1000 + DecimalValue(pad)

\* JumiaScraper.extract_price(price_text), the text given as its characters
ExtractPrice(t) ==
    IF t = <<>> THEN None
    ELSE FloatOf(PriceClean(IF HasRangeSeparator(t) THEN BeforeHyphen(t) ELSE t))

\* _assess_price_data_quality compares the price with 0: TypeError on a str
AssessPriceDataQualityRaises(rec) == IsText(Get(rec.price))

\* ------------------------------------------------------------ statistics
\* the counters dict of db_manager.py has no 'errors' key
NewStats(m) ==
    [new_products |-> 0, updated_products |-> 0, new_price_records |-> 0,
     price_changes_detected |-> 0, errors |-> IF m = "enhanced" THEN 0 ELSE NoKey]

\* what the caller holds when save_products raised
NoStats ==
    [new_products |-> NoKey, updated_products |-> NoKey, new_price_records |-> NoKey,
     price_changes_detected |-> NoKey, errors |-> NoKey]

\* ------------------------------------------------------------ normalizer
\* source a record is stored under: the basic manager reads it from the record
SourceOfRecord(rec) == IF rec.source = NoStr THEN "jumia.ma" ELSE rec.source

\* the compatibility wrapper of the enhanced manager takes the source of the
\* first record for the whole batch
SourceOfBatch(batch) ==
    IF Len(batch) > 0 /\ batch[1].source # NoStr THEN batch[1].source ELSE "unknown"

\* scraped_at of the snapshot: the record's own timestamp, else utcnow()
ScrapedAt(rec, clock) == IF rec.scraped_at = None THEN clock ELSE rec.scraped_at

\* the price_history document of a record; id is the _id insert_one assigns
PreparePriceHistory(rec, clock, id) ==
    [id |-> id,
     product_id |-> rec.product_id,
     scraped_at |-> ScrapedAt(rec, clock),
     price |-> Get(rec.price),
     discount |-> Get(rec.discount)]

\* ------------------------------------------------------------ products
Matching(prods, pid) == {d \in prods : d.product_id = pid}

\* update_one(..., upsert=True) of the enhanced manager: $set of the prepared
\* document on the matched product, $setOnInsert of the aggregates otherwise
UpsertEnhanced(prods, rec, src) ==
    LET match == Matching(prods, rec.product_id)
    IN IF match = {}
       THEN prods \cup
            {[product_id |-> rec.product_id, source |-> src, brand |-> rec.brand, category |-> rec.category,
              min_price |-> GetOr(rec.price, 0),
              max_price |-> GetOr(rec.price, 0),
              avg_num |-> GetOr(rec.price, 0), avg_den |-> 1,
              price_history_count |-> NoKey, last_price |-> NoKey,
              vol_num |-> NoKey, vol_den |-> 1]}
       ELSE LET d == CHOOSE x \in match : TRUE
            IN (prods \ {d}) \cup {[d EXCEPT !.source = src, !.brand = rec.brand,
                                            !.category = rec.category]}

\* find_one, then update_one($set) or insert_one, of the basic manager
UpsertBasic(prods, rec) ==
    LET match == Matching(prods, rec.product_id)
    IN IF match = {}
       THEN prods \cup
            {[product_id |-> rec.product_id, source |-> SourceOfRecord(rec),
              brand |-> rec.brand, category |-> rec.category,
              min_price |-> NoKey, max_price |-> NoKey,
              avg_num |-> NoKey, avg_den |-> 1,
              price_history_count |-> NoKey, last_price |-> NoKey,
              vol_num |-> NoKey, vol_den |-> 1]}
       ELSE LET d == CHOOSE x \in match : TRUE
            IN (prods \ {d}) \cup
               {[d EXCEPT !.source = SourceOfRecord(rec), !.brand = rec.brand,
                          !.category = rec.category]}

\* _update_product_price_stats raises TypeError when the stored average is None
\* (None * int) or a str (str + float), before anything is written
StatsRaises(prods, pid, new_price) ==
    /\ Truthy(new_price) /\ new_price > 0
    /\ Matching(prods, pid) # {}
    /\ LET avg == (CHOOSE x \in Matching(prods, pid) : TRUE).avg_num
       IN avg = None \/ IsText(avg)

UpdateProductPriceStats(prods, pid, new_price) ==
    IF ~Truthy(new_price) \/ new_price <= 0 THEN prods
    ELSE IF Matching(prods, pid) = {} THEN prods
    ELSE LET d == CHOOSE x \in Matching(prods, pid) : TRUE
             price_count == GetOr(d.price_history_count, 0) + 1
         IN (prods \ {d}) \cup
            {[d EXCEPT
                !.min_price = Min2(d.min_price, new_price),
                !.max_price = Max2(d.max_price, new_price),
                !.avg_num = d.avg_num * (price_count - 1) + new_price * d.avg_den,
                !.avg_den = d.avg_den * price_count,
                !.price_history_count = price_count,
                !.last_price = new_price,
                !.vol_num = IF d.avg_num > 0
                            THEN Abs(new_price * d.avg_den - d.avg_num) ELSE 0,
                !.vol_den = IF d.avg_num > 0 THEN d.avg_num ELSE 1]}

\* ------------------------------------------------------------ detector
\* find_one({product_id, _id != new _id}, sort scraped_at descending): the _id of
\* the record found, 0 when there is none.  Among records with the same greatest
\* scraped_at the store may return any one: tie says which.
\* (mutant) the lookup without the _id exclusion: the new record finds itself
PreviousRecordNotExcluded(hist, pid, newId, tie) ==
    LET others == {i \in 1..Len(hist) : hist[i].product_id = pid}
        latest == {i \in others : \A j \in others : hist[j].scraped_at <= hist[i].scraped_at}
    IN IF others = {} THEN 0
       ELSE IF tie = "oldest" THEN CHOOSE i \in latest : \A j \in latest : i <= j
       ELSE CHOOSE i \in latest : \A j \in latest : i >= j

\* (mutant) the lookup restricted to snapshots scraped before the new one: a
\* snapshot of the same instant is not found
PreviousRecordScrapedBefore(hist, pid, newId, tie) ==
    LET others == {i \in 1..Len(hist) :
                      /\ hist[i].product_id = pid /\ hist[i].id # newId
                      /\ hist[i].scraped_at < hist[newId].scraped_at}
        latest == {i \in others : \A j \in others : hist[j].scraped_at <= hist[i].scraped_at}
    IN IF others = {} THEN 0
       ELSE IF tie = "oldest" THEN CHOOSE i \in latest : \A j \in latest : i <= j
       ELSE CHOOSE i \in latest : \A j \in latest : i >= j

\* (mutant) the lookup without the product_id filter: the latest other snapshot
\* of any product
PreviousRecordAnyProduct(hist, pid, newId, tie) ==
    LET others == {i \in 1..Len(hist) : hist[i].id # newId}
        latest == {i \in others : \A j \in others : hist[j].scraped_at <= hist[i].scraped_at}
    IN IF others = {} THEN 0
       ELSE IF tie = "oldest" THEN CHOOSE i \in latest : \A j \in latest : i <= j
       ELSE CHOOSE i \in latest : \A j \in latest : i >= j

PreviousRecord(hist, pid, newId, tie) ==
    LET others == {i \in 1..Len(hist) : hist[i].product_id = pid /\ hist[i].id # newId}
        latest == {i \in others : \A j \in others : hist[j].scraped_at <= hist[i].scraped_at}
    IN IF others = {} THEN 0
       ELSE IF tie = "oldest" THEN CHOOSE i \in latest : \A j \in latest : i <= j
       ELSE CHOOSE i \in latest : \A j \in latest : i >= j

NewProductChange(new, clock) ==
    [product_id |-> new.product_id, change_type |-> "new_product",
     previous_price |-> NoKey, current_price |-> new.price,
     price_difference |-> NoKey, pct_num |-> NoKey, pct_den |-> 1,
     previous_discount |-> NoKey, current_discount |-> new.discount,
     changed_at |-> clock, previous_scrape_id |-> NoKey, current_scrape_id |-> new.id,
     significance |-> NoStr]

\* 'high' if abs(pct) > 20 else 'medium' if abs(pct) > 5 else 'low', pct = num/den
Significance(num, den) ==
    IF Abs(num) > 20 * den THEN "high"
    ELSE IF Abs(num) > 5 * den THEN "medium"
    ELSE "low"

\* (mutant) the percentage taken relative to the new price
PriceMovedChangeOverNew(m, prev, new, clock) ==
    LET price_diff == new.price - prev.price
        num == IF new.price > 0 THEN (new.price - prev.price) * 100 ELSE 0
        den == IF new.price > 0 THEN new.price ELSE 1
    IN [product_id |-> new.product_id,
        change_type |-> IF price_diff < 0 THEN "decrease" ELSE "increase",
        previous_price |-> prev.price, current_price |-> new.price,
        price_difference |-> price_diff, pct_num |-> num, pct_den |-> den,
        previous_discount |-> prev.discount, current_discount |-> new.discount,
        changed_at |-> clock, previous_scrape_id |-> prev.id, current_scrape_id |-> new.id,
        significance |-> NoStr]

\* the record built when the price moved; percentage_change is pct_num/pct_den
PriceMovedChange(m, prev, new, clock) ==
    LET price_diff == new.price - prev.price
        num == IF prev.price > 0 THEN (new.price - prev.price) * 100 ELSE 0
        den == IF prev.price > 0 THEN prev.price ELSE 1
    IN [product_id |-> new.product_id,
        change_type |-> IF price_diff < 0 THEN "decrease" ELSE "increase",
        previous_price |-> prev.price, current_price |-> new.price,
        price_difference |-> price_diff, pct_num |-> num, pct_den |-> den,
        previous_discount |-> prev.discount, current_discount |-> new.discount,
        changed_at |-> clock, previous_scrape_id |-> prev.id, current_scrape_id |-> new.id,
        significance |-> IF m = "enhanced" THEN Significance(num, den) ELSE NoStr]

\* the record the basic manager builds when only the discount moved
DiscountChange(prev, new, clock) ==
    LET old_discount == IF Truthy(prev.discount) THEN prev.discount ELSE 0
        new_discount == IF Truthy(new.discount) THEN new.discount ELSE 0
    IN [product_id |-> new.product_id,
        change_type |-> IF new_discount > old_discount
                        THEN "discount_added" ELSE "discount_removed",
        previous_price |-> prev.price, current_price |-> new.price,
        price_difference |-> 0, pct_num |-> 0, pct_den |-> 1,
        previous_discount |-> old_discount, current_discount |-> new_discount,
        changed_at |-> clock, previous_scrape_id |-> prev.id, current_scrape_id |-> new.id,
        significance |-> NoStr]

\* _detect_enhanced_price_change: <<>> for None, <<change>> otherwise.
\* previous_scrape_id/current_scrape_id name the two records compared (the
\* enhanced manager compares them without storing their ids).
DetectEnhancedPriceChange(hist, new, clock, tie) ==
    LET p == PreviousRecord(hist, new.product_id, new.id, tie)
    IN IF p = 0
       THEN IF Truthy(new.price) THEN <<NewProductChange(new, clock)>> ELSE <<>>
       ELSE IF hist[p].price = None \/ new.price = None THEN <<>>
       ELSE IF Abs(hist[p].price - new.price) < Epsilon THEN <<>>
       ELSE <<PriceMovedChange("enhanced", hist[p], new, clock)>>

\* new_price - old_price of _detect_price_change raises TypeError when the two
\* prices differ and one of them is a str
DetectPriceChangeRaises(hist, new, tie) ==
    LET p == PreviousRecord(hist, new.product_id, new.id, tie)
    IN /\ p # 0
       /\ hist[p].price # None /\ new.price # None
       /\ hist[p].price # new.price
       /\ (IsText(hist[p].price) \/ IsText(new.price))

\* _detect_price_change of the basic manager
DetectPriceChange(hist, new, clock, tie) ==
    LET p == PreviousRecord(hist, new.product_id, new.id, tie)
    IN IF p = 0
       THEN IF Truthy(new.price) THEN <<NewProductChange(new, clock)>> ELSE <<>>
       ELSE IF hist[p].price = None \/ new.price = None THEN <<>>
       ELSE IF hist[p].price = new.price
            THEN IF (IF Truthy(hist[p].discount) THEN hist[p].discount ELSE 0)
                    # (IF Truthy(new.discount) THEN new.discount ELSE 0)
                 THEN <<DiscountChange(hist[p], new, clock)>>
                 ELSE <<>>
       ELSE <<PriceMovedChange("basic", hist[p], new, clock)>>

\* (mutant) the snapshot written with an upsert on product_id: a later snapshot
\* of a product replaces the stored one
InsertSnapshotUpsert(hist, new) ==
    IF \E i \in 1..Len(hist) : hist[i].product_id = new.product_id
    THEN [i \in 1..Len(hist) |->
             IF hist[i].product_id = new.product_id THEN [new EXCEPT !.id = i] ELSE hist[i]]
    ELSE Append(hist, new)

\* price_history.insert_one(price_record)
InsertSnapshot(hist, new) == Append(hist, new)

\* ------------------------------------------------------------ save_products
\* One iteration of the loop of save_products_enhanced on the loop state
\* st = [products, hist, changes, stats, raised].  fault names the store call
\* of this iteration that raises ("none": no call raises).
ProcessEnhanced(st, rec, fault, src, clock, tie) ==
    IF rec.product_id = NoStr THEN [st EXCEPT !.stats.errors = @ + 1]
    ELSE IF fault = "upsert" THEN [st EXCEPT !.stats.errors = @ + 1]
    ELSE
    LET isNew == Matching(st.products, rec.product_id) = {}
        s1 == [st EXCEPT !.products = UpsertEnhanced(@, rec, src),
                         !.stats.new_products = IF isNew THEN @ + 1 ELSE @,
                         !.stats.updated_products = IF isNew THEN @ ELSE @ + 1]
        new == PreparePriceHistory(rec, clock, Len(st.hist) + 1)
        s2 == [s1 EXCEPT !.hist = InsertSnapshot(@, new), !.stats.new_price_records = @ + 1]
        chg == DetectEnhancedPriceChange(s2.hist, new, clock, tie)
        s3 == [s2 EXCEPT !.changes = Append(@, chg[1]),
                         !.stats.price_changes_detected = @ + 1]
    IN IF fault = "snapshot" \/ AssessPriceDataQualityRaises(rec)
       THEN [s1 EXCEPT !.stats.errors = @ + 1]
       ELSE IF chg = <<>> THEN s2
       ELSE IF fault = "change" THEN [s2 EXCEPT !.stats.errors = @ + 1]
       ELSE IF StatsRaises(s3.products, rec.product_id, new.price)
               \/ (fault = "stats" /\ Truthy(new.price) /\ new.price > 0)
            THEN [s3 EXCEPT !.stats.errors = @ + 1]
       ELSE [s3 EXCEPT !.products = UpdateProductPriceStats(@, rec.product_id, new.price)]

\* One iteration of the loop of save_products of the basic manager: there is no
\* try inside the loop, a store call that raises ends the call.
ProcessBasic(st, rec, fault, clock, tie) ==
    IF rec.product_id = NoStr THEN st
    ELSE IF fault = "upsert" THEN [st EXCEPT !.raised = TRUE]
    ELSE
    LET isNew == Matching(st.products, rec.product_id) = {}
        s1 == [st EXCEPT !.products = UpsertBasic(@, rec),
                         !.stats.new_products = IF isNew THEN @ + 1 ELSE @,
                         !.stats.updated_products = IF isNew THEN @ ELSE @ + 1]
        new == PreparePriceHistory(rec, clock, Len(st.hist) + 1)
        s2 == [s1 EXCEPT !.hist = InsertSnapshot(@, new), !.stats.new_price_records = @ + 1]
        chg == DetectPriceChange(s2.hist, new, clock, tie)
    IN IF fault = "snapshot" THEN [s1 EXCEPT !.raised = TRUE]
       ELSE IF DetectPriceChangeRaises(s2.hist, new, tie) THEN [s2 EXCEPT !.raised = TRUE]
       ELSE IF chg = <<>> THEN s2
       ELSE IF fault = "change" THEN [s2 EXCEPT !.raised = TRUE]
       ELSE [s2 EXCEPT !.changes = Append(@, chg[1]),
                       !.stats.price_changes_detected = @ + 1]

ProcessRecord(m, st, rec, fault, src, clock, tie) ==
    IF m = "enhanced" THEN ProcessEnhanced(st, rec, fault, src, clock, tie)
    ELSE ProcessBasic(st, rec, fault, clock, tie)

\* for product_data in products: ...
RECURSIVE SaveLoop(_, _, _, _, _, _, _, _)
SaveLoop(m, st, batch, faults, i, src, clock, tie) ==
    IF i > Len(batch) \/ st.raised THEN st
    ELSE SaveLoop(m, ProcessRecord(m, st, batch[i], faults[i], src, clock, tie),
                  batch, faults, i + 1, src, clock, tie)

\* ------------------------------------------------------------ read paths
\* find(...).sort("scraped_at", -1) over the records whose _id is in ids, as the
\* sequence of their _ids; records with equal scraped_at come in the order tie
RECURSIVE SortByScrapedAtDesc(_, _, _)
SortByScrapedAtDesc(hist, ids, tie) ==
    IF ids = {} THEN <<>>
    ELSE LET latest == {i \in ids : \A j \in ids : hist[j].scraped_at <= hist[i].scraped_at}
             first == IF tie = "oldest" THEN CHOOSE i \in latest : \A j \in latest : i <= j
                      ELSE CHOOSE i \in latest : \A j \in latest : i >= j
         IN <<first>> \o SortByScrapedAtDesc(hist, ids \ {first}, tie)

Take(seq, n) == SubSeq(seq, 1, Min2(n, Len(seq)))

\* get_product_price_history(product_id, limit): "if limit:" applies the limit
GetProductPriceHistory(hist, pid, limit, tie) ==
    LET sorted == SortByScrapedAtDesc(hist, {i \in 1..Len(hist) : hist[i].product_id = pid}, tie)
        cut == IF Truthy(limit) THEN Take(sorted, limit) ELSE sorted
    IN [k \in 1..Len(cut) |-> hist[cut[k]]]

\* (mutant) the pipeline sorted ascending: $first is the oldest record
LatestPriceAscending(hist, pid, tie) ==
    LET sorted == SortByScrapedAtDesc(hist, {i \in 1..Len(hist) : hist[i].product_id = pid}, tie)
    IN IF sorted = <<>> THEN 0 ELSE sorted[Len(sorted)]

\* the $sort / $group $first pipeline of get_current_prices: the latest record
\* of a product_id (0 when it has none)
LatestPrice(hist, pid, tie) ==
    LET sorted == SortByScrapedAtDesc(hist, {i \in 1..Len(hist) : hist[i].product_id = pid}, tie)
    IN IF sorted = <<>> THEN 0 ELSE sorted[1]

RECURSIVE CurrentPriceRows(_, _, _)
CurrentPriceRows(hist, prods, tie) ==
    IF prods = {} THEN <<>>
    ELSE LET d == CHOOSE x \in prods : TRUE
             l == LatestPrice(hist, d.product_id, tie)
             rest == CurrentPriceRows(hist, prods \ {d}, tie)
         IN IF l = 0 THEN rest
            ELSE <<[product_id |-> d.product_id, source |-> d.source, brand |-> d.brand,
                    category |-> d.category,
                    price |-> hist[l].price, discount |-> hist[l].discount,
                    last_price_update |-> hist[l].scraped_at]>> \o rest

\* get_current_prices(category, brand, source); category is not filtered on here
GetCurrentPrices(hist, prods, brand, source, tie) ==
    CurrentPriceRows(hist,
                     {d \in prods : /\ (brand # NoStr => d.brand = brand)
                                    /\ (source # NoStr => d.source = source)},
                     tie)

\* find(query).sort("changed_at", -1) over the change records whose index is in
\* ids; records with equal changed_at come in the order tie
RECURSIVE SortByChangedAtDesc(_, _, _)
SortByChangedAtDesc(changes, ids, tie) ==
    IF ids = {} THEN <<>>
    ELSE LET latest == {i \in ids : \A j \in ids : changes[j].changed_at <= changes[i].changed_at}
             first == IF tie = "oldest" THEN CHOOSE i \in latest : \A j \in latest : i <= j
                      ELSE CHOOSE i \in latest : \A j \in latest : i >= j
         IN <<first>> \o SortByChangedAtDesc(changes, ids \ {first}, tie)

\* the query document of get_price_changes applied to one change record: a
\* filter is added when its argument is truthy; {"$gte": x} does not match a
\* document without the field.  min_percentage is in whole percents.
MatchesPriceChangeQuery(chg, change_type, since, min_percentage) ==
    /\ (change_type # NoStr => chg.change_type = change_type)
    /\ (Truthy(since) => chg.changed_at >= since)
    /\ (Truthy(min_percentage) =>
          /\ chg.pct_num # NoKey
          /\ chg.pct_num >= Abs(min_percentage) * chg.pct_den)

\* get_price_changes(change_type, since, min_percentage)
GetPriceChanges(changes, change_type, since, min_percentage, tie) ==
    LET sorted == SortByChangedAtDesc(changes,
                     {i \in 1..Len(changes) :
                        MatchesPriceChangeQuery(changes[i], change_type, since, min_percentage)},
                     tie)
    IN [k \in 1..Len(sorted) |-> changes[sorted[k]]]

\* ------------------------------------------------------------ alerts
\* str.lower() on the e-mail addresses used here
Lower(email) == IF email = "A@x.ma" THEN "a@x.ma" ELSE email

\* the indexes of the preferences of (user_email, product_id): the unique index
\* keeps at most one
PrefsOf(prefs, email, pid) ==
    {i \in 1..Len(prefs) : prefs[i].user_email = email /\ prefs[i].product_id = pid}

\* get_user_by_email, then create_user when there is none
EnsureUser(us, email, clock) ==
    IF \E u \in us : u.email = Lower(email) THEN us
    ELSE us \cup {[email |-> Lower(email), created_at |-> clock, is_active |-> TRUE,
                   alert_count |-> 0, total_products_tracked |-> 0]}

\* users.update_one({email}, {$inc: {alert_count: n}})
IncUserAlertCount(us, email, n) ==
    {IF u.email = Lower(email) THEN [u EXCEPT !.alert_count = @ + n] ELSE u : u \in us}

\* the update_one(upsert=True) of save_user_alert_preference: $set of every
\* field but created_at on the matched preference, insert otherwise
UpsertPreference(prefs, email, pid, drop, below, clock) ==
    LET match == PrefsOf(prefs, Lower(email), pid)
        doc == [id |-> Len(prefs) + 1, user_email |-> Lower(email), product_id |-> pid,
                price_drop_threshold |-> drop, price_below_threshold |-> below,
                anomaly_alerts |-> TRUE, created_at |-> clock, updated_at |-> clock,
                is_active |-> TRUE, alert_count |-> 0, last_triggered |-> None]
    IN IF match = {} THEN Append(prefs, doc)
       ELSE [i \in 1..Len(prefs) |->
                IF i \in match
                THEN [doc EXCEPT !.id = prefs[i].id, !.created_at = prefs[i].created_at]
                ELSE prefs[i]]

\* (mutant) the update of remove_user_alert_preference without is_active: the
\* preference is only touched
RemovePreferenceTouchOnly(prefs, email, pid, clock) ==
    [i \in 1..Len(prefs) |->
        IF i \in PrefsOf(prefs, Lower(email), pid)
        THEN [prefs[i] EXCEPT !.updated_at = clock]
        ELSE prefs[i]]

\* update_one({user_email, product_id}, {$set: {is_active: False, updated_at}})
RemovePreference(prefs, email, pid, clock) ==
    [i \in 1..Len(prefs) |->
        IF i \in PrefsOf(prefs, Lower(email), pid)
        THEN [prefs[i] EXCEPT !.is_active = FALSE, !.updated_at = clock]
        ELSE prefs[i]]

\* (mutant) the drop test made with <= : a drop equal to the threshold fires
AlertsOfPreferenceAtThreshold(hist, pref, tie) ==
    LET recent == Take(SortByScrapedAtDesc(hist,
                          {i \in 1..Len(hist) : hist[i].product_id = pref.product_id}, tie), 2)
        current_price == hist[recent[1]].price
        previous_price == hist[recent[2]].price
        num == IF previous_price > 0 THEN (current_price - previous_price) * 100 ELSE 0
        den == IF previous_price > 0 THEN previous_price ELSE 1
        drop == IF Truthy(pref.price_drop_threshold)
                   /\ num <= (0 - pref.price_drop_threshold) * den
                THEN <<[user_email |-> pref.user_email, product_id |-> pref.product_id,
                        alert_type |-> "price_drop", current_price |-> current_price,
                        previous_price |-> previous_price, pct_num |-> num, pct_den |-> den,
                        threshold |-> pref.price_drop_threshold, preference_id |-> pref.id]>>
                ELSE <<>>
        below == IF Truthy(pref.price_below_threshold)
                    /\ current_price < pref.price_below_threshold
                 THEN <<[user_email |-> pref.user_email, product_id |-> pref.product_id,
                         alert_type |-> "price_below_threshold",
                         current_price |-> current_price,
                         previous_price |-> NoKey, pct_num |-> NoKey, pct_den |-> 1,
                         threshold |-> pref.price_below_threshold,
                         preference_id |-> pref.id]>>
                 ELSE <<>>
    IN IF Len(recent) < 2 THEN <<>>
       ELSE IF ~Truthy(current_price) \/ ~Truthy(previous_price) THEN <<>>
       ELSE drop \o below

\* the alert candidates check_user_alerts builds for one preference; tie orders
\* snapshots of equal scraped_at in find().sort('scraped_at', -1).limit(2)
AlertsOfPreference(hist, pref, tie) ==
    LET recent == Take(SortByScrapedAtDesc(hist,
                          {i \in 1..Len(hist) : hist[i].product_id = pref.product_id}, tie), 2)
        current_price == hist[recent[1]].price
        previous_price == hist[recent[2]].price
        num == IF previous_price > 0 THEN (current_price - previous_price) * 100 ELSE 0
        den == IF previous_price > 0 THEN previous_price ELSE 1
        drop == IF Truthy(pref.price_drop_threshold)
                   /\ num < (0 - pref.price_drop_threshold) * den
                THEN <<[user_email |-> pref.user_email, product_id |-> pref.product_id,
                        alert_type |-> "price_drop", current_price |-> current_price,
                        previous_price |-> previous_price, pct_num |-> num, pct_den |-> den,
                        threshold |-> pref.price_drop_threshold, preference_id |-> pref.id]>>
                ELSE <<>>
        below == IF Truthy(pref.price_below_threshold)
                    /\ current_price < pref.price_below_threshold
                 THEN <<[user_email |-> pref.user_email, product_id |-> pref.product_id,
                         alert_type |-> "price_below_threshold",
                         current_price |-> current_price,
                         previous_price |-> NoKey, pct_num |-> NoKey, pct_den |-> 1,
                         threshold |-> pref.price_below_threshold,
                         preference_id |-> pref.id]>>
                 ELSE <<>>
    IN IF Len(recent) < 2 THEN <<>>
       ELSE IF ~Truthy(current_price) \/ ~Truthy(previous_price) THEN <<>>
       ELSE drop \o below

\* for pref in preferences: ... over the active preferences from index i on
RECURSIVE CheckAlertsFrom(_, _, _, _)
CheckAlertsFrom(prefs, hist, i, tie) ==
    IF i > Len(prefs) THEN <<>>
    ELSE (IF prefs[i].is_active THEN AlertsOfPreference(hist, prefs[i], tie) ELSE <<>>)
         \o CheckAlertsFrom(prefs, hist, i + 1, tie)

\* check_user_alerts()
CheckAlerts(prefs, hist, tie) == CheckAlertsFrom(prefs, hist, 1, tie)

\* the alert_history document of record_sent_alert.  product_snapshots is
\* bookkeeping of the model, not a stored field: the number of snapshots the
\* product had when the alert was recorded.
AlertRecord(alert_data, hist, clock) ==
    [user_email |-> alert_data.user_email, product_id |-> alert_data.product_id,
     alert_type |-> alert_data.alert_type, sent_at |-> clock,
     alert_data |-> alert_data, email_status |-> "sent",
     product_snapshots |->
        Cardinality({i \in 1..Len(hist) : hist[i].product_id = alert_data.product_id})]

\* update_one({_id: preference_id}, {$set: {last_triggered}, $inc: {alert_count: 1}})
TriggerPreference(prefs, preference_id, clock) ==
    [i \in 1..Len(prefs) |->
        IF prefs[i].id = preference_id
        THEN [prefs[i] EXCEPT !.last_triggered = clock, !.alert_count = @ + 1]
        ELSE prefs[i]]

\* no alert candidate
NoAlert ==
    [user_email |-> NoStr, product_id |-> NoStr, alert_type |-> NoStr,
     current_price |-> NoKey, previous_price |-> NoKey, pct_num |-> NoKey, pct_den |-> 1,
     threshold |-> NoKey, preference_id |-> 0]

\* ------------------------------------------------------------ unified manager
\* the rows of (id, source) in the SQLite products table
SqliteMatching(rows, pid, source) == {r \in rows : r.id = pid /\ r.source = source}

\* a statement of SQLiteManager.save_product on record rec violates a
\* constraint of the schema: name, price and url are NOT NULL, id is the
\* PRIMARY KEY of products
SqliteIntegrityError(rows, rec) ==
    \/ rec.name = NoStr \/ rec.url = NoStr \/ rec.price = None
    \/ /\ SqliteMatching(rows, rec.product_id, rec.source) = {}
       /\ \E r \in rows : r.id = rec.product_id

\* product_data['source'] raises KeyError, which save_product does not catch
SqliteRaises(rec) == rec.source = NoStr

\* the products table after a committed SQLiteManager.save_product
SqliteUpsert(rows, rec, clock) ==
    LET match == SqliteMatching(rows, rec.product_id, rec.source)
    IN (rows \ match) \cup
       {[id |-> rec.product_id, source |-> rec.source, name |-> rec.name, url |-> rec.url,
         price |-> rec.price,
         created_at |-> IF match = {} THEN clock
                        ELSE (CHOOSE r \in match : TRUE).created_at,
         updated_at |-> clock]}

\* the row save_product adds to the SQLite price_history table
SqlitePriceRow(rec, clock) ==
    [product_id |-> rec.product_id, source |-> rec.source, price |-> rec.price,
     scraped_at |-> clock]

\* (mutant) the except clause without conn.rollback(): the statements executed
\* before the failing one stay
SqliteRollbackMissing(pre, pending) == pending

\* conn.rollback(): the tables as they were when the transaction began
SqliteRollback(pre, pending) == pre

\* the statements of SQLiteManager.save_product on tables t = [products,
\* price_history]: the product row is written, then the price_history row, then
\* the transaction is committed; fault names the statement the store fails
\* ("none": only constraint violations fail).  ret is the value returned.
SqliteTransaction(t, rec, fault, clock) ==
    LET t1 == [t EXCEPT !.products = SqliteUpsert(@, rec, clock)]
        t2 == [t1 EXCEPT !.price_history = Append(@, SqlitePriceRow(rec, clock))]
    IN IF SqliteIntegrityError(t.products, rec) \/ fault = "product"
       THEN [tables |-> SqliteRollback(t, t), ret |-> FALSE]
       ELSE IF fault = "history"
       THEN [tables |-> SqliteRollback(t, t1), ret |-> FALSE]
       ELSE [tables |-> t2, ret |-> TRUE]

\* db_manager.DatabaseManager has no save_product method: the call of the
\* unified manager raises AttributeError, which its except clause logs
MongoSaveProductRaises == TRUE

\* the records given to the unified save_product
UnifiedRecords(pids, sources, names, prices) ==
    [product_id : pids, source : sources, name : names, url : {"u"}, price : prices]

NoRecord == [product_id |-> NoStr, source |-> NoStr, name |-> NoStr, url |-> NoStr,
             price |-> None]

\* ------------------------------------------------------------ concurrent saves
\* two save_products calls running at once on the same database
Procs == {1, 2}

NoSnapshot ==
    [id |-> 0, product_id |-> NoStr, scraped_at |-> None, price |-> None, discount |-> None]

\* a call that is not running: its record, its price_record, what its detector
\* returned and the product document its statistics update read
IdleProc ==
    [pc |-> "idle",
     rec |-> [product_id |-> NoStr, source |-> NoStr, price |-> None, discount |-> None,
              scraped_at |-> None, brand |-> NoStr, category |-> NoStr],
     new |-> NoSnapshot, chg |-> <<>>, read |-> {}]

\* the $set of _update_product_price_stats, computed from the document read
\* before, applied to the stored document
WritePriceStats(prods, read, pid, new_price) ==
    LET computed == CHOOSE x \in UpdateProductPriceStats(read, pid, new_price) : TRUE
    IN {IF d.product_id = pid
        THEN [d EXCEPT !.min_price = computed.min_price, !.max_price = computed.max_price,
                       !.avg_num = computed.avg_num, !.avg_den = computed.avg_den,
                       !.price_history_count = computed.price_history_count,
                       !.last_price = computed.last_price,
                       !.vol_num = computed.vol_num, !.vol_den = computed.vol_den]
        ELSE d : d \in prods}

\* ------------------------------------------------------------ product document
\* a text key the dict does not have; None is NoStr
Absent == "absent"

\* dict.get(key) on a text field
TextGet(x) == IF x = Absent THEN NoStr ELSE x

\* truth value of a text field read with dict.get(key)
TruthyText(x) == x \notin {Absent, NoStr, ""}

\* _calculate_product_quality_score in halves of a point: 1 for each essential
\* field that is truthy, 0.5 for each bonus field, over 9 checks, at most 1.0
QualityHalves(pd) ==
    2 * ((IF TruthyText(pd.name) THEN 1 ELSE 0) + (IF Truthy(pd.price) THEN 1 ELSE 0)
         + (IF TruthyText(pd.category) THEN 1 ELSE 0) + (IF TruthyText(pd.brand) THEN 1 ELSE 0)
         + (IF TruthyText(pd.url) THEN 1 ELSE 0))
    + (IF TruthyText(pd.image_url) THEN 1 ELSE 0) + (IF Truthy(pd.rating) THEN 1 ELSE 0)
    + (IF Truthy(pd.review_count) THEN 1 ELSE 0) + (IF Truthy(pd.discount) THEN 1 ELSE 0)

\* _prepare_enhanced_product_document(product_data, source); quality_score is
\* qs_num / qs_den
PrepareEnhancedProductDocument(pd, source, clock) ==
    [product_id |-> TextGet(pd.product_id),
     name |-> TextGet(pd.name),
     display_name |-> IF TruthyText(pd.displayName) THEN pd.displayName ELSE TextGet(pd.name),
     brand |-> TextGet(pd.brand),
     url |-> TextGet(pd.url),
     image_url |-> TextGet(pd.image_url),
     category |-> TextGet(pd.category),
     categories |-> IF pd.categories = "list" THEN "json" ELSE TextGet(pd.categories),
     tags |-> IF pd.tags = Absent THEN "[]" ELSE pd.tags,
     is_official_store |-> IF pd.is_official_store = Absent THEN "False"
                           ELSE pd.is_official_store,
     last_scraped_at |-> clock, last_updated_at |-> clock,
     source |-> source, is_active |-> TRUE,
     qs_num |-> Min2(QualityHalves(pd), 18), qs_den |-> 18]

\* a product document read as product_data: the keys it does not have are absent
AsProductData(doc) ==
    [product_id |-> doc.product_id, name |-> doc.name, displayName |-> Absent,
     brand |-> doc.brand, url |-> doc.url, image_url |-> doc.image_url,
     category |-> doc.category, categories |-> doc.categories, tags |-> doc.tags,
     is_official_store |-> doc.is_official_store,
     price |-> NoKey, rating |-> NoKey, review_count |-> NoKey, discount |-> NoKey]

NoProductData ==
    [product_id |-> Absent, name |-> Absent, displayName |-> Absent, brand |-> Absent,
     url |-> Absent, image_url |-> Absent, category |-> Absent, categories |-> Absent,
     tags |-> Absent, is_official_store |-> Absent,
     price |-> NoKey, rating |-> NoKey, review_count |-> NoKey, discount |-> NoKey]

\* ------------------------------------------------------------ get_page
\* what one session.get can lead to: a valid page, an empty body, a body that is
\* no HTML, a timeout, an HTTP error status, another request error, any other
\* exception
Responses ==
    {"page", "empty", "invalid_html", "timeout", "404", "403", "500",
     "request_error", "unexpected_error"}

\* (mutant) a 404 handled like a server error: retried
HandleResponseRetry404(r, attempt, max_retries) ==
    IF r = "page" THEN "return_soup"
    ELSE IF r \in {"empty", "invalid_html"}
         THEN IF attempt < max_retries - 1 THEN "continue" ELSE "return_none"
    ELSE IF r \in {"403"} THEN "return_none"
    ELSE "continue"

\* the body of the retry loop after the request of iteration attempt got r:
\* return the page, return None, or go on to the next iteration (which, after
\* the last one, leaves the loop)
HandleResponse(r, attempt, max_retries) ==
    IF r = "page" THEN "return_soup"
    ELSE IF r \in {"empty", "invalid_html"}
         THEN IF attempt < max_retries - 1 THEN "continue" ELSE "return_none"
    ELSE IF r \in {"404", "403"} THEN "return_none"
    ELSE "continue"

\* no get_page call made yet
NoFetch ==
    [pc |-> "idle", max_retries |-> 0, attempt |-> 0, server |-> <<>>, ret |-> NoStr]

\* ------------------------------------------------------------ inputs
Records(pids, sources, prices, discounts, times, brands) ==
    [product_id : pids, source : sources, price : prices, discount : discounts,
     scraped_at : times, brand : brands, category : {"phones"}]

\* the lists of at most n records
Batches(recs, n) == UNION {[1..k -> recs] : k \in 0..n}

NoCall ==
    [op |-> "none", batch |-> <<>>, faults |-> <<>>,
     product_id |-> NoStr, limit |-> None, brand |-> NoStr, source |-> NoStr,
     change_type |-> NoStr, since |-> None, min_percentage |-> None,
     user_email |-> NoStr, price_drop_threshold |-> None,
     price_below_threshold |-> None, alert |-> NoAlert,
     record |-> NoRecord, pre_sqlite_products |-> {}, pre_nsqlite |-> 0,
     pre_sqlite_price_history |-> <<>>,
     pre_products |-> {}, pre_nhist |-> 0, pre_nchanges |-> 0]

\* ------------------------------------------------------------ actions
Init ==
    /\ mgr \in Managers
    /\ products = {}
    /\ price_history = <<>>
    /\ price_changes = <<>>
    /\ now = 1
    /\ lastCall = NoCall
    /\ outcome = "none"
    /\ stats = NoStats
    /\ result = <<>>
    /\ users = {}
    /\ user_alert_preferences = <<>>
    /\ alert_history = <<>>
    /\ backends = {}
    /\ sqlite_products = {}
    /\ sqlite_price_history = <<>>
    /\ success = FALSE
    /\ procs = [p \in Procs |-> IdleProc]
    /\ parPre = [products |-> {}, hist |-> <<>>, changes |-> <<>>, clock |-> 0]
    /\ raw_record = NoProductData
    /\ normalized = <<>>
    /\ fetch = NoFetch

\* save_products(batch) on the manager: a batch of at most n records drawn from
\* recs, the store call that raises for each record drawn from flts.  The clock
\* has moved on by the next call.
SaveProducts(recs, n, flts) ==
    \E batch \in Batches(recs, n), tie \in Ties :
      \E faults \in [1..Len(batch) -> flts] :
        /\ now <= MaxTime
        /\ Len(price_history) + Len(batch) <= MaxSnapshots
        /\ LET st == SaveLoop(mgr,
                              [products |-> products, hist |-> price_history,
                               changes |-> price_changes, stats |-> NewStats(mgr),
                               raised |-> FALSE],
                              batch, faults, 1, SourceOfBatch(batch), now, tie)
           IN /\ products' = st.products
              /\ price_history' = st.hist
              /\ price_changes' = st.changes
              /\ outcome' = IF st.raised THEN "raised" ELSE "returned"
              /\ stats' = IF st.raised THEN NoStats ELSE st.stats
        /\ lastCall' = [NoCall EXCEPT !.op = "save_products", !.batch = batch,
                                      !.faults = faults,
                                      !.pre_products = products,
                                      !.pre_nhist = Len(price_history),
                                      !.pre_nchanges = Len(price_changes)]
        /\ result' = <<>>
        /\ now' = now + 1
        /\ UNCHANGED <<mgr, alertVars, unifiedVars, parVars, normVars, pageVars>>

\* get_product_price_history(pid, limit); only the basic manager has it
PriceHistoryQuery(pids, limits) ==
    \E pid \in pids, limit \in limits, tie \in Ties :
        /\ mgr = "basic"
        /\ result' = GetProductPriceHistory(price_history, pid, limit, tie)
        /\ lastCall' = [NoCall EXCEPT !.op = "get_product_price_history",
                                      !.product_id = pid, !.limit = limit,
                                      !.pre_products = products,
                                      !.pre_nhist = Len(price_history),
                                      !.pre_nchanges = Len(price_changes)]
        /\ outcome' = "returned"
        /\ UNCHANGED <<mgr, products, price_history, price_changes, now, stats,
                       alertVars, unifiedVars, parVars, normVars, pageVars>>

\* get_current_prices(brand=..., source=...); only the basic manager has it
CurrentPricesQuery(brands, sources) ==
    \E brand \in brands, source \in sources, tie \in Ties :
        /\ mgr = "basic"
        /\ result' = GetCurrentPrices(price_history, products, brand, source, tie)
        /\ lastCall' = [NoCall EXCEPT !.op = "get_current_prices",
                                      !.brand = brand, !.source = source,
                                      !.pre_products = products,
                                      !.pre_nhist = Len(price_history),
                                      !.pre_nchanges = Len(price_changes)]
        /\ outcome' = "returned"
        /\ UNCHANGED <<mgr, products, price_history, price_changes, now, stats,
                       alertVars, unifiedVars, parVars, normVars, pageVars>>

\* get_price_changes(change_type, since, min_percentage); only the basic manager
\* has it
PriceChangesQuery(types, sinces, mins) ==
    \E change_type \in types, since \in sinces, min_percentage \in mins, tie \in Ties :
        /\ mgr = "basic"
        /\ result' = GetPriceChanges(price_changes, change_type, since, min_percentage, tie)
        /\ lastCall' = [NoCall EXCEPT !.op = "get_price_changes",
                                      !.change_type = change_type, !.since = since,
                                      !.min_percentage = min_percentage,
                                      !.pre_products = products,
                                      !.pre_nhist = Len(price_history),
                                      !.pre_nchanges = Len(price_changes)]
        /\ outcome' = "returned"
        /\ UNCHANGED <<mgr, products, price_history, price_changes, now, stats,
                       alertVars, unifiedVars, parVars, normVars, pageVars>>

\* save_user_alert_preference(user_email, product_id, price_drop_threshold,
\* price_below_threshold); only the enhanced manager has the alerting methods
SaveUserAlertPreference(emails, pids, drops, belows) ==
    \E email \in emails, pid \in pids, drop \in drops, below \in belows :
        /\ mgr = "enhanced"
        /\ LET upserted == PrefsOf(user_alert_preferences, Lower(email), pid) = {}
           IN /\ user_alert_preferences' =
                    UpsertPreference(user_alert_preferences, email, pid, drop, below, now)
              /\ users' = IncUserAlertCount(EnsureUser(users, email, now), email,
                                            IF upserted THEN 1 ELSE 0)
        /\ lastCall' = [NoCall EXCEPT !.op = "save_user_alert_preference",
                                      !.user_email = email, !.product_id = pid,
                                      !.price_drop_threshold = drop,
                                      !.price_below_threshold = below,
                                      !.pre_products = products,
                                      !.pre_nhist = Len(price_history),
                                      !.pre_nchanges = Len(price_changes)]
        /\ outcome' = "returned"
        /\ UNCHANGED <<mgr, products, price_history, price_changes, now, stats, result,
                       alert_history, unifiedVars, parVars, normVars, pageVars>>

\* remove_user_alert_preference(user_email, product_id); success is the value
\* returned: modified_count > 0, the update changed the stored document
RemoveUserAlertPreference(emails, pids) ==
    \E email \in emails, pid \in pids :
        LET removed == RemovePreference(user_alert_preferences, email, pid, now)
            modified == removed # user_alert_preferences
        IN /\ mgr = "enhanced"
           /\ \A u \in users : u.alert_count > 0 - MaxAlerts
           /\ user_alert_preferences' = removed
           /\ users' = IF modified THEN IncUserAlertCount(users, email, 0 - 1) ELSE users
           /\ success' = modified
           /\ lastCall' = [NoCall EXCEPT !.op = "remove_user_alert_preference",
                                         !.user_email = email, !.product_id = pid,
                                         !.pre_products = products,
                                         !.pre_nhist = Len(price_history),
                                         !.pre_nchanges = Len(price_changes)]
           /\ outcome' = "returned"
           /\ UNCHANGED <<mgr, products, price_history, price_changes, now, stats, result,
                          alert_history, backends, sqlite_products, sqlite_price_history,
                          parVars, normVars, pageVars>>

\* check_user_alerts()
CheckUserAlerts ==
    \E tie \in Ties :
        /\ mgr = "enhanced"
        /\ result' = CheckAlerts(user_alert_preferences, price_history, tie)
        /\ lastCall' = [NoCall EXCEPT !.op = "check_user_alerts",
                                      !.pre_products = products,
                                      !.pre_nhist = Len(price_history),
                                      !.pre_nchanges = Len(price_changes)]
        /\ outcome' = "returned"
        /\ UNCHANGED <<mgr, products, price_history, price_changes, now, stats,
                       alertVars, unifiedVars, parVars, normVars, pageVars>>

\* record_sent_alert(alert) for an alert of the list check_user_alerts returned
\* last; the call returns nothing, the list stays with the caller
RecordSentAlert ==
    \E k \in 1..Len(result) :
        /\ mgr = "enhanced"
        /\ lastCall.op \in {"check_user_alerts", "record_sent_alert"}
        /\ Len(alert_history) + 1 <= MaxAlerts
        /\ alert_history' = Append(alert_history, AlertRecord(result[k], price_history, now))
        /\ user_alert_preferences' =
              TriggerPreference(user_alert_preferences, result[k].preference_id, now)
        /\ lastCall' = [NoCall EXCEPT !.op = "record_sent_alert", !.alert = result[k],
                                      !.pre_products = products,
                                      !.pre_nhist = Len(price_history),
                                      !.pre_nchanges = Len(price_changes)]
        /\ outcome' = "returned"
        /\ UNCHANGED <<mgr, products, price_history, price_changes, now, stats, result, users,
                       unifiedVars, parVars, normVars, pageVars>>

\* database_manager.DatabaseManager(use_mongodb, use_sqlite): a backend asked
\* for is there when its manager could be constructed; with none the
\* constructor raises RuntimeError and no manager exists
NewDatabaseManager ==
    \E use_mongodb \in BOOLEAN, use_sqlite \in BOOLEAN, mongo_up \in BOOLEAN :
        LET avail == (IF use_mongodb /\ mongo_up THEN {"mongodb"} ELSE {})
                     \cup (IF use_sqlite THEN {"sqlite"} ELSE {})
        IN /\ backends = {}
           /\ backends' = avail
           /\ outcome' = IF avail = {} THEN "raised" ELSE "returned"
           /\ lastCall' = [NoCall EXCEPT !.op = "DatabaseManager"]
           /\ UNCHANGED <<mgr, products, price_history, price_changes, now, stats, result,
                          alertVars, sqlite_products, sqlite_price_history, success,
                          parVars, normVars, pageVars>>

\* database_manager.DatabaseManager.save_product(product_data)
UnifiedSaveProduct(recs) ==
    \E rec \in recs :
        /\ backends # {}
        /\ Len(sqlite_price_history) + 1 <= MaxSnapshots
        /\ LET mongo_ok == "mongodb" \in backends /\ ~MongoSaveProductRaises
               sqlite_called == "sqlite" \in backends
               committed == /\ sqlite_called /\ ~SqliteRaises(rec)
                            /\ ~SqliteIntegrityError(sqlite_products, rec)
           IN /\ sqlite_products' = IF committed THEN SqliteUpsert(sqlite_products, rec, now)
                                     ELSE sqlite_products
              /\ sqlite_price_history' =
                    IF committed THEN Append(sqlite_price_history, SqlitePriceRow(rec, now))
                    ELSE sqlite_price_history
              /\ success' = (mongo_ok \/ (sqlite_called /\ ~SqliteRaises(rec)))
        /\ lastCall' = [NoCall EXCEPT !.op = "save_product", !.record = rec,
                                      !.pre_sqlite_products = sqlite_products,
                                      !.pre_nsqlite = Len(sqlite_price_history),
                                      !.pre_products = products,
                                      !.pre_nhist = Len(price_history),
                                      !.pre_nchanges = Len(price_changes)]
        /\ outcome' = "returned"
        /\ UNCHANGED <<mgr, products, price_history, price_changes, now, stats, result,
                       alertVars, backends, parVars, normVars, pageVars>>

\* SQLiteManager.save_product(product_data) called on the SQLite manager itself;
\* success is the value it returns
SqliteSaveProduct(recs, flts) ==
    \E rec \in recs, fault \in flts :
        /\ Len(sqlite_price_history) + 1 <= MaxSnapshots
        /\ LET t == SqliteTransaction([products |-> sqlite_products,
                                       price_history |-> sqlite_price_history],
                                      rec, fault, now)
           IN IF SqliteRaises(rec)
              THEN /\ outcome' = "raised"
                   /\ success' = FALSE
                   /\ UNCHANGED <<sqlite_products, sqlite_price_history>>
              ELSE /\ outcome' = "returned"
                   /\ success' = t.ret
                   /\ sqlite_products' = t.tables.products
                   /\ sqlite_price_history' = t.tables.price_history
        /\ lastCall' = [NoCall EXCEPT !.op = "sqlite_save_product", !.record = rec,
                                      !.faults = <<fault>>,
                                      !.pre_sqlite_products = sqlite_products,
                                      !.pre_nsqlite = Len(sqlite_price_history),
                                      !.pre_sqlite_price_history = sqlite_price_history]
        /\ now' = IF now < MaxTime THEN now + 1 ELSE now
        /\ UNCHANGED <<mgr, products, price_history, price_changes, stats, result,
                       alertVars, backends, parVars, normVars, pageVars>>

\* ---- JumiaScraper.get_page(url, max_retries), one request at a time
\* what the page fetch leaves alone
pageFrame ==
    <<mgr, products, price_history, price_changes, now, stats, result,
      alertVars, unifiedVars, parVars, normVars>>

\* get_page is called (the scraper fetches one page at a time): the loop
\* starts at attempt 0; fetch.server lists what the requests sent led to
GetPage(retries) ==
    \E max_retries \in retries :
        /\ fetch.pc # "loop"
        /\ fetch' = [pc |-> "loop", max_retries |-> max_retries, attempt |-> 0,
                     server |-> <<>>, ret |-> NoStr]
        /\ lastCall' = [NoCall EXCEPT !.op = "get_page"]
        /\ outcome' = "none"
        /\ UNCHANGED pageFrame

\* one iteration of `for attempt in range(max_retries)`: session.get sends a
\* request, the server answers r, and the iteration returns or goes on
SendRequest(responses) ==
    \E r \in responses :
        LET h == HandleResponse(r, fetch.attempt, fetch.max_retries)
        IN /\ fetch.pc = "loop"
           /\ fetch.attempt < fetch.max_retries
           /\ fetch' = [fetch EXCEPT
                            !.server = Append(@, r),
                            !.attempt = IF h = "continue" THEN @ + 1 ELSE @,
                            !.pc = IF h = "continue" THEN "loop" ELSE "returned",
                            !.ret = IF h = "return_soup" THEN "soup"
                                    ELSE IF h = "return_none" THEN "None" ELSE @]
           /\ outcome' = IF h = "continue" THEN outcome ELSE "returned"
           /\ UNCHANGED <<lastCall, pageFrame>>

\* the loop is exhausted: `return None` after it
ReturnNoneAfterLoop ==
    /\ fetch.pc = "loop"
    /\ fetch.attempt >= fetch.max_retries
    /\ fetch' = [fetch EXCEPT !.pc = "returned", !.ret = "None"]
    /\ outcome' = "returned"
    /\ UNCHANGED <<lastCall, pageFrame>>

\* ---- two save_products calls at once, one store operation at a time
Quiet == \A p \in Procs : procs[p].pc \in {"idle", "done"}

\* what a step of a concurrent call leaves alone besides the collections
parFrame ==
    <<mgr, now, lastCall, outcome, stats, result, alertVars, unifiedVars, parPre, normVars, pageVars>>

\* two callers enter save_products at the same time, each with one record, for
\* different product_ids
StartSaves(recs) ==
    \E r1 \in recs, r2 \in recs :
        /\ r1.product_id # r2.product_id
        /\ Quiet
        /\ now <= MaxTime
        /\ Len(price_history) + 2 <= MaxSnapshots
        /\ procs' = [p \in Procs |->
                        [IdleProc EXCEPT !.pc = IF mgr = "basic" THEN "find" ELSE "upsert",
                                         !.rec = IF p = 1 THEN r1 ELSE r2]]
        /\ parPre' = [products |-> products, hist |-> price_history,
                       changes |-> price_changes, clock |-> now]
        /\ lastCall' = [NoCall EXCEPT !.op = "concurrent_saves", !.batch = <<r1, r2>>,
                                      !.faults = <<"none", "none">>,
                                      !.pre_products = products,
                                      !.pre_nhist = Len(price_history),
                                      !.pre_nchanges = Len(price_changes)]
        /\ outcome' = "none"
        /\ now' = now + 1
        /\ UNCHANGED <<mgr, products, price_history, price_changes, stats, result,
                       alertVars, unifiedVars, normVars, pageVars>>

\* basic manager: existing_product = products.find_one({product_id})
FindProduct(p) ==
    /\ procs[p].pc = "find"
    /\ procs' = [procs EXCEPT ![p].pc = "upsert",
                              ![p].read = Matching(products, procs[p].rec.product_id)]
    /\ UNCHANGED <<products, price_history, price_changes, parFrame>>

\* enhanced: update_one(upsert=True); basic: update_one if the product was
\* found, insert_one otherwise (DuplicateKeyError ends the call)
UpsertProduct(p) ==
    LET rec == procs[p].rec
        there == Matching(products, rec.product_id) # {}
    IN /\ procs[p].pc = "upsert"
       /\ IF mgr = "enhanced"
          THEN /\ products' = UpsertEnhanced(products, rec, SourceOfBatch(<<rec>>))
               /\ procs' = [procs EXCEPT ![p].pc = "snapshot"]
          ELSE IF (procs[p].read # {}) = there
          THEN /\ products' = UpsertBasic(products, rec)
               /\ procs' = [procs EXCEPT ![p].pc = "snapshot"]
          ELSE /\ products' = products
               /\ procs' = [procs EXCEPT ![p].pc = IF there THEN "done" ELSE "snapshot"]
       /\ UNCHANGED <<price_history, price_changes, parFrame>>

\* price_history.insert_one(price_record)
InsertPriceRecord(p) ==
    LET new == PreparePriceHistory(procs[p].rec, parPre.clock, Len(price_history) + 1)
    IN /\ procs[p].pc = "snapshot"
       /\ price_history' = InsertSnapshot(price_history, new)
       /\ procs' = [procs EXCEPT ![p].pc = "detect", ![p].new = new]
       /\ UNCHANGED <<products, price_changes, parFrame>>

\* the find_one of the detector and the change record it builds
DetectChange(p) ==
    \E tie \in Ties :
        LET chg == IF mgr = "enhanced"
                   THEN DetectEnhancedPriceChange(price_history, procs[p].new, parPre.clock, tie)
                   ELSE DetectPriceChange(price_history, procs[p].new, parPre.clock, tie)
        IN /\ procs[p].pc = "detect"
           /\ procs' = [procs EXCEPT ![p].pc = IF chg = <<>> THEN "done" ELSE "change",
                                     ![p].chg = chg]
           /\ UNCHANGED <<products, price_history, price_changes, parFrame>>

\* price_changes.insert_one(price_change)
InsertPriceChange(p) ==
    /\ procs[p].pc = "change"
    /\ price_changes' = Append(price_changes, procs[p].chg[1])
    /\ procs' = [procs EXCEPT ![p].pc = IF mgr = "enhanced" THEN "stats" ELSE "done"]
    /\ UNCHANGED <<products, price_history, parFrame>>

\* _update_product_price_stats up to its find_one: returns on a price that is
\* not positive or a product not found, raises on a None average
ReadPriceStats(p) ==
    LET pid == procs[p].rec.product_id
        price == procs[p].new.price
    IN /\ procs[p].pc = "stats"
       /\ procs' = [procs EXCEPT
                       ![p].pc = IF \/ ~Truthy(price) \/ price <= 0
                                    \/ Matching(products, pid) = {}
                                    \/ StatsRaises(products, pid, price)
                                 THEN "done" ELSE "stats_write",
                       ![p].read = Matching(products, pid)]
       /\ UNCHANGED <<products, price_history, price_changes, parFrame>>

\* the update_one of _update_product_price_stats
WriteProductPriceStats(p) ==
    /\ procs[p].pc = "stats_write"
    /\ products' = WritePriceStats(products, procs[p].read, procs[p].rec.product_id,
                                   procs[p].new.price)
    /\ procs' = [procs EXCEPT ![p].pc = "done"]
    /\ UNCHANGED <<price_history, price_changes, parFrame>>

\* _prepare_enhanced_product_document on a scraped record
PrepareProductDocument(raws, sources) ==
    \E pd \in raws, source \in sources :
        /\ mgr = "enhanced"
        /\ raw_record' = pd
        /\ normalized' = <<PrepareEnhancedProductDocument(pd, source, now)>>
        /\ lastCall' = [NoCall EXCEPT !.op = "_prepare_enhanced_product_document",
                                      !.source = source]
        /\ outcome' = "returned"
        /\ UNCHANGED <<mgr, products, price_history, price_changes, now, stats, result,
                       alertVars, unifiedVars, parVars, pageVars>>

\* _prepare_enhanced_product_document on the document it returned last (as the
\* migration does with stored product documents)
PrepareProductDocumentAgain ==
    /\ mgr = "enhanced"
    /\ Len(normalized) = 1
    /\ normalized' = Append(normalized,
                            PrepareEnhancedProductDocument(
                                AsProductData(normalized[Len(normalized)]),
                                normalized[Len(normalized)].source, now))
    /\ lastCall' = [NoCall EXCEPT !.op = "_prepare_enhanced_product_document",
                                  !.source = normalized[Len(normalized)].source]
    /\ outcome' = "returned"
    /\ UNCHANGED <<mgr, products, price_history, price_changes, now, stats, result,
                   alertVars, unifiedVars, parVars, raw_record, pageVars>>

\* ------------------------------------------------------------ specifications
Pids == {"p1", "p2"}
Sources == {"jumia.ma", "marjanemall.ma"}
NoFaults == {"none"}
StoreFaults == {"none", "upsert", "snapshot", "change"}

\* saves of two products from two sources, timestamps from the clock
SaveRecs == Records(Pids, Sources, {None, 80000, 100000}, {None}, {None}, {NoStr})

Next == SaveProducts(SaveRecs, MaxBatch, NoFaults)

Spec == Init /\ [][Next]_vars

\* saves with records that lack product_id and store calls that raise
FaultRecs ==
    Records({NoStr}, {"jumia.ma"}, {100000}, {None}, {None}, {NoStr})
    \cup Records({"p1"}, {"jumia.ma"}, {80000, 100000}, {None}, {None}, {NoStr})

NextFault == SaveProducts(FaultRecs, MaxBatch, StoreFaults)

SpecFault == Init /\ [][NextFault]_vars

\* saves of one product whose records carry their own scraped_at, in any order
OrderRecs == Records({"p1"}, {"jumia.ma"}, {80000, 100000}, {None}, 1..MaxTime, {NoStr})

NextOrder == SaveProducts(OrderRecs, MaxBatch, NoFaults)

SpecOrder == Init /\ [][NextOrder]_vars

\* saves of one product over the price and discount cases of the detector
\* (a discount is given on the records of one price)
DetectRecs ==
    Records({"p1"}, {"jumia.ma"}, {None, 0, 80000, 100000, 100005}, {None}, {None}, {NoStr})
    \cup Records({"p1"}, {"jumia.ma"}, {100000}, {10}, {None}, {NoStr})

NextDetect == SaveProducts(DetectRecs, 2, NoFaults)

SpecDetect == Init /\ [][NextDetect]_vars

\* saves of single records followed by reads
QueryRecs == Records(Pids, {"jumia.ma"}, {80000, 100000}, {None}, {1, 2}, {NoStr})

NextQuery ==
    \/ SaveProducts(QueryRecs, 1, NoFaults)
    \/ PriceHistoryQuery(Pids, {None, 0, 1, 2})
    \/ CurrentPricesQuery({NoStr}, {NoStr, "jumia.ma"})

SpecQuery == Init /\ [][NextQuery]_vars

\* saves of single records of one product followed by get_price_changes
ChangeRecs == Records({"p1"}, {"jumia.ma"}, {80000, 100000, 104000}, {None}, {None}, {NoStr})

NextChanges ==
    \/ SaveProducts(ChangeRecs, 1, NoFaults)
    \/ PriceChangesQuery({NoStr, "decrease", "increase"}, {None, 2}, {None, 5, 0 - 5})

SpecChanges == Init /\ [][NextChanges]_vars

\* saves of single records of one product, alert preferences of one user on it
\* and alert checks
AlertRecs == Records({"p1"}, {"jumia.ma"}, {None, 0, 80000, 100000}, {None}, {None}, {NoStr})

NextAlert ==
    \/ SaveProducts(AlertRecs, 1, NoFaults)
    \/ SaveUserAlertPreference({"A@x.ma"}, {"p1"}, {None, 0, 10, 20}, {None, 90000})
    \/ CheckUserAlerts

SpecAlert == Init /\ [][NextAlert]_vars

\* saves of single records of one product, one alert preference on it, alert
\* checks and recordings of the alerts found
RecordRecs == Records({"p1"}, {"jumia.ma"}, {80000, 100000}, {None}, {None}, {NoStr})

NextRecord ==
    \/ SaveProducts(RecordRecs, 1, NoFaults)
    \/ SaveUserAlertPreference({"A@x.ma"}, {"p1"}, {10}, {None, 90000})
    \/ CheckUserAlerts
    \/ RecordSentAlert

SpecRecord == Init /\ [][NextRecord]_vars

\* the alert preferences of two users on two products, saved and removed
NextPrefs ==
    \/ SaveUserAlertPreference({"A@x.ma", "b@x.ma"}, Pids, {10}, {None})
    \/ RemoveUserAlertPreference({"A@x.ma", "b@x.ma"}, Pids)

SpecPrefs == Init /\ [][NextPrefs]_vars

\* saves of single records of one product, one user's alert preference on it
\* saved and removed, alert checks
NextRemove ==
    \/ SaveProducts(RecordRecs, 1, NoFaults)
    \/ SaveUserAlertPreference({"A@x.ma"}, {"p1"}, {10}, {None, 90000})
    \/ RemoveUserAlertPreference({"A@x.ma"}, {"p1"})
    \/ CheckUserAlerts

SpecRemove == Init /\ [][NextRemove]_vars

\* saves of one product whose records carry a brand or omit it
FieldRecs == Records({"p1"}, {"jumia.ma"}, {100000}, {None}, {None}, {NoStr, "samsung", "apple"})

NextFields == SaveProducts(FieldRecs, MaxBatch, NoFaults)

SpecFields == Init /\ [][NextFields]_vars

\* saves of single records of one product, some lacking product_id, with store
\* calls that raise, an alert preference on the product, alert checks and
\* recordings
AppendRecs ==
    Records({NoStr, "p1"}, {"jumia.ma"}, {80000, 100000}, {None}, {None}, {NoStr})

NextAppend ==
    \/ SaveProducts(AppendRecs, 1, {"none", "snapshot", "change"})
    \/ SaveUserAlertPreference({"A@x.ma"}, {"p1"}, {10}, {None})
    \/ CheckUserAlerts
    \/ RecordSentAlert

SpecAppend == Init /\ [][NextAppend]_vars

\* a unified manager over any backends and saves of single products through it
UnifiedRecs ==
    UnifiedRecords({"p1"}, {NoStr, "jumia.ma", "marjanemall.ma"}, {NoStr, "n"},
                   {None, 80000, 100000})

NextUnified ==
    \/ NewDatabaseManager
    \/ UnifiedSaveProduct(UnifiedRecs)

SpecUnified == Init /\ [][NextUnified]_vars

\* whole saves of single records, and pairs of saves for different products
\* whose store operations interleave
ParRecs == Records(Pids, {"jumia.ma"}, {None, 80000, 100000}, {None}, {None}, {NoStr})

NextPar ==
    \/ Quiet /\ SaveProducts(ParRecs, 1, NoFaults)
    \/ StartSaves(ParRecs)
    \/ \E p \in Procs : FindProduct(p)
    \/ \E p \in Procs : UpsertProduct(p)
    \/ \E p \in Procs : InsertPriceRecord(p)
    \/ \E p \in Procs : DetectChange(p)
    \/ \E p \in Procs : InsertPriceChange(p)
    \/ \E p \in Procs : ReadPriceStats(p)
    \/ \E p \in Procs : WriteProductPriceStats(p)

SpecPar == Init /\ [][NextPar]_vars

\* product documents prepared from scraped records, then from themselves
RawRecords ==
    [product_id : {"p1"}, name : {NoStr, "n"}, displayName : {Absent},
     brand : {Absent, "b"}, url : {"u"}, image_url : {Absent}, category : {"phones"},
     categories : {NoStr, "list"}, tags : {Absent, NoStr, "list"},
     is_official_store : {Absent, "True"},
     price : {None, 0, 100000}, rating : {NoKey}, review_count : {NoKey},
     discount : {None, 10}]

NextNorm ==
    \/ PrepareProductDocument(RawRecords, {"jumia.ma"})
    \/ PrepareProductDocumentAgain

SpecNorm == Init /\ [][NextNorm]_vars

\* records whose price is a float, None or a str (a range, a formatted price)
RangeRecs ==
    Records({"p1"}, {"jumia.ma"}, {None, 169000, Text(1), Text(2)}, {None}, {None}, {NoStr})

NextRange == SaveProducts(RangeRecs, MaxBatch, NoFaults)

SpecRange == Init /\ [][NextRange]_vars

\* one product saved one record at a time at prices 5%, 20% and more apart
TierRecs == Records({"p1"}, {"jumia.ma"}, {80000, 95000, 100000, 104000}, {None}, {None}, {NoStr})

NextTier == SaveProducts(TierRecs, 1, NoFaults)

SpecTier == Init /\ [][NextTier]_vars

\* two products whose first price may be missing or 0, saved in batches
FirstRecs == Records(Pids, {"jumia.ma"}, {None, 0, 100000}, {None}, {None}, {NoStr})

NextFirst == SaveProducts(FirstRecs, 2, NoFaults)

SpecFirst == Init /\ [][NextFirst]_vars

\* product_data with each of the nine scored fields missing or present
ScoreRecords ==
    [product_id : {"p1"}, name : {NoStr, "n"}, displayName : {Absent},
     brand : {NoStr, "b"}, url : {NoStr, "u"}, image_url : {NoStr, "i"},
     category : {NoStr, "phones"}, categories : {NoStr}, tags : {Absent},
     is_official_store : {Absent},
     price : {None, 100000}, rating : {None, 4}, review_count : {None, 12},
     discount : {None, 10}]

NextScore == PrepareProductDocument(ScoreRecords, {"jumia.ma"})

SpecScore == Init /\ [][NextScore]_vars

\* direct saves in SQLite: records without a name, a price or a source, under
\* two sources, and statements the store fails
SqliteRecs ==
    UnifiedRecords({"p1"}, {NoStr, "jumia.ma", "marjanemall.ma"}, {NoStr, "n"},
                   {None, 80000, 100000})

NextSqlite == SqliteSaveProduct(SqliteRecs, {"none", "product", "history"})

SpecSqlite == Init /\ [][NextSqlite]_vars

\* page fetches with 0 to MaxRetries attempts allowed, against every server;
\* the loop keeps running and every request ends (timeout=30)
NextPage ==
    \/ GetPage(0..MaxRetries)
    \/ SendRequest(Responses)
    \/ ReturnNoneAfterLoop

SpecPage ==
    /\ Init /\ [][NextPage]_vars
    /\ WF_vars(SendRequest(Responses)) /\ WF_vars(ReturnNoneAfterLoop)

\* ------------------------------------------------------------ properties
LastSave == lastCall.op = "save_products"

\* the _ids of the snapshots of pid inserted before snapshot k
Earlier(k) == {j \in 1..(k - 1) : price_history[j].product_id = price_history[k].product_id}

\* among them, those with the greatest scraped_at
LatestEarlier(k) ==
    {j \in Earlier(k) :
        \A i \in Earlier(k) : price_history[i].scraped_at <= price_history[j].scraped_at}

\* the change records emitted for snapshot k
ChangesFor(k) == {c \in 1..Len(price_changes) : price_changes[c].current_scrape_id = k}

\* price_history_count of product pid in prods, 0 when it has none
HistoryCount(prods, pid) ==
    IF Matching(prods, pid) = {} THEN 0
    ELSE GetOr((CHOOSE d \in Matching(prods, pid) : TRUE).price_history_count, 0)

\* the fraction num/den (den > 0) in lowest terms
RECURSIVE Gcd(_, _)
Gcd(a, b) == IF b = 0 THEN a ELSE Gcd(b, a % b)

Reduced(num, den) == <<num \div Gcd(Abs(num), den), den \div Gcd(Abs(num), den)>>

\* a discount with None counted as 0
DiscountOrZero(x) == IF Truthy(x) THEN x ELSE 0

\* C1: saving the same one-record batch (price present) twice in a row on the
\* manager that keeps price_history_count: the first save, which creates the
\* product, reports new_products = 1; the second reports updated_products = 1
\* and new_products = 0; price_history_count grows by one on each save.
C1_SameRecordTwice ==
    [][(/\ mgr = "enhanced"
        /\ lastCall.op = "save_products" /\ lastCall'.op = "save_products"
        /\ Len(lastCall.batch) = 1 /\ lastCall'.batch = lastCall.batch
        /\ lastCall.batch[1].price # None
        /\ Matching(lastCall.pre_products, lastCall.batch[1].product_id) = {})
       => (/\ stats.new_products = 1
           /\ stats'.updated_products = 1 /\ stats'.new_products = 0
           /\ HistoryCount(products, lastCall.batch[1].product_id)
                = HistoryCount(lastCall.pre_products, lastCall.batch[1].product_id) + 1
           /\ HistoryCount(products', lastCall.batch[1].product_id)
                = HistoryCount(products, lastCall.batch[1].product_id) + 1)]_vars

\* C2: after a save, every (product_id, source) pair of the batch is a stored
\* product, and every pair stored before the save still is: a record with the
\* same product_id and another source neither overwrites nor is rejected.
C2_IdentityIsIdAndSource ==
    (LastSave /\ outcome = "returned") =>
        /\ \A i \in 1..Len(lastCall.batch) :
             \E d \in products : /\ d.product_id = lastCall.batch[i].product_id
                                 /\ d.source = lastCall.batch[i].source
        /\ \A e \in lastCall.pre_products :
             \E d \in products : d.product_id = e.product_id /\ d.source = e.source

\* C3: every change record with a previous snapshot compares the new snapshot
\* with the one immediately before it in scraped_at order: the previous one is
\* not later than the new one, and none of the snapshots present at the
\* comparison lies strictly between the two.
C3_ComparesAdjacentSnapshots ==
    \A c \in 1..Len(price_changes) :
        price_changes[c].previous_scrape_id # NoKey =>
            LET cur == price_changes[c].current_scrape_id
                prev == price_changes[c].previous_scrape_id
            IN /\ price_history[prev].scraped_at <= price_history[cur].scraped_at
               /\ \A k \in Earlier(cur) :
                    ~(/\ price_history[prev].scraped_at < price_history[k].scraped_at
                      /\ price_history[k].scraped_at < price_history[cur].scraped_at)

\* the records of the last batch that carry a product_id
WithId == {i \in 1..Len(lastCall.batch) : lastCall.batch[i].product_id # NoStr}

\* those whose product upsert or snapshot insert raised
FailedEarly == {i \in WithId : lastCall.faults[i] \in {"upsert", "snapshot"}}

\* C4: when a store call raises while a record of the batch is processed,
\* save_products still returns its statistics, errors counts the failure, and
\* every other record with a product_id has its snapshot stored.
C4_BatchNeverAborts ==
    (LastSave /\ FailedEarly # {}) =>
        /\ outcome = "returned"
        /\ stats.errors >= Cardinality(FailedEarly)
        /\ Len(price_history) - lastCall.pre_nhist = Cardinality(WithId \ FailedEarly)

\* C5: in a batch where no store call raises, errors is the number of records
\* without product_id, those records create no product, snapshot or change, all
\* other records are saved and the statistics are returned.
C5_MissingProductId ==
    (LastSave /\ \A i \in 1..Len(lastCall.batch) : lastCall.faults[i] = "none") =>
        /\ outcome = "returned"
        /\ GetOr(stats.errors, 0) = Len(lastCall.batch) - Cardinality(WithId)
        /\ Len(price_history) - lastCall.pre_nhist = Cardinality(WithId)
        /\ \A d \in products : d.product_id # NoStr
        /\ \A k \in 1..Len(price_history) : price_history[k].product_id # NoStr
        /\ \A c \in 1..Len(price_changes) : price_changes[c].product_id # NoStr

\* the one change record emitted for snapshot k is a new_product record without
\* previous_* fields
OneNewProductChange(k) ==
    /\ Cardinality(ChangesFor(k)) = 1
    /\ \A c \in ChangesFor(k) :
         /\ price_changes[c].change_type = "new_product"
         /\ price_changes[c].current_price = price_history[k].price
         /\ price_changes[c].previous_price = NoKey
         /\ price_changes[c].previous_discount = NoKey
         /\ price_changes[c].previous_scrape_id = NoKey

C7_PriceMovedFields ==
    \A c \in 1..Len(price_changes) :
        LET chg == price_changes[c]
            old == price_history[chg.previous_scrape_id].price
            new == price_history[chg.current_scrape_id].price
        IN (/\ chg.previous_scrape_id # NoKey
            /\ old # None /\ new # None /\ old # new) =>
              /\ chg.price_difference = new - old
              /\ chg.previous_price = old /\ chg.current_price = new
              /\ chg.pct_den > 0
              /\ (old = 0 => chg.pct_num = 0)
              /\ (old # 0 => Reduced(chg.pct_num, chg.pct_den)
                               = Reduced((new - old) * 100, old))
              /\ chg.change_type = IF new - old < 0 THEN "decrease" ELSE "increase"
              /\ ((old = 100000 /\ new = 80000) =>
                    (/\ Reduced(chg.pct_num, chg.pct_den) = <<0 - 20, 1>>
                     /\ chg.change_type = "decrease"))

\* C7 witness: a change from 100 to 80 and a change from a price of 0 were recorded
C7_Witness ==
    /\ \E c \in 1..Len(price_changes) :
         /\ price_changes[c].previous_price = 100000
         /\ price_changes[c].current_price = 80000
         /\ price_changes[c].change_type = "decrease"
    /\ \E c \in 1..Len(price_changes) :
         /\ price_changes[c].previous_price = 0
         /\ price_changes[c].change_type = "increase"

\* C8: a snapshot whose price equals that of the one snapshot before it and
\* whose discount differs from it (None counted as 0) has a change record with
\* price_difference 0, of type discount_added if the new discount is larger and
\* discount_removed otherwise.
C8_DiscountChangeOnEqualPrice ==
    \A k \in 1..Len(price_history) :
        \A j \in LatestEarlier(k) :
            (/\ LatestEarlier(k) = {j}
             /\ price_history[k].price # None
             /\ price_history[j].price = price_history[k].price
             /\ DiscountOrZero(price_history[j].discount)
                  # DiscountOrZero(price_history[k].discount)) =>
                /\ ChangesFor(k) # {}
                /\ \A c \in ChangesFor(k) :
                     /\ price_changes[c].price_difference = 0
                     /\ price_changes[c].change_type =
                          IF DiscountOrZero(price_history[k].discount)
                               > DiscountOrZero(price_history[j].discount)
                          THEN "discount_added" ELSE "discount_removed"

\* C9: get_product_price_history(pid, limit = N) with N >= 0 returns at most N
\* records, all of product pid, in non-increasing scraped_at order.
C9_HistoryAtMostLimit ==
    (lastCall.op = "get_product_price_history" /\ lastCall.limit # None) =>
        /\ Len(result) <= lastCall.limit
        /\ \A k \in 1..Len(result) : result[k].product_id = lastCall.product_id
        /\ \A k \in 1..(Len(result) - 1) : result[k].scraped_at >= result[k + 1].scraped_at

\* the snapshots of product pid with the greatest scraped_at
LatestOf(pid) ==
    {j \in 1..Len(price_history) :
        /\ price_history[j].product_id = pid
        /\ \A i \in 1..Len(price_history) :
             price_history[i].product_id = pid =>
                price_history[i].scraped_at <= price_history[j].scraped_at}

\* C10: get_current_prices() without filters returns exactly one row for every
\* product_id that has a snapshot and none for any other, and the price fields
\* of a row are those of a snapshot of the product with the greatest scraped_at.
C10_OneCurrentRowPerProduct ==
    (lastCall.op = "get_current_prices" /\ lastCall.brand = NoStr /\ lastCall.source = NoStr) =>
        /\ \A pid \in Pids :
             Cardinality({k \in 1..Len(result) : result[k].product_id = pid})
                = IF LatestOf(pid) = {} THEN 0 ELSE 1
        /\ \A k \in 1..Len(result) :
             /\ result[k].product_id \in Pids
             /\ \E j \in LatestOf(result[k].product_id) :
                  /\ result[k].price = price_history[j].price
                  /\ result[k].discount = price_history[j].discount
                  /\ result[k].last_price_update = price_history[j].scraped_at

\* C10 witness: get_current_prices() returned a single row for a product that
\* has two snapshots of different scraped_at and price, while another product
\* has its own row
C10_Witness ==
    /\ lastCall.op = "get_current_prices" /\ lastCall.brand = NoStr /\ lastCall.source = NoStr
    /\ Len(result) = 2
    /\ \E i, j \in 1..Len(price_history) :
         /\ price_history[i].product_id = price_history[j].product_id
         /\ price_history[i].scraped_at < price_history[j].scraped_at
         /\ price_history[i].price # price_history[j].price

\* C11: get_price_changes with a minimum percentage m returns, among the change
\* records that match the change_type and since filters and carry a
\* percentage_change, exactly those whose absolute percentage_change is at
\* least |m|, decreases as well as increases; it returns nothing else.
C11_MinPercentageIsAbsolute ==
    (lastCall.op = "get_price_changes" /\ lastCall.min_percentage # None) =>
        /\ \A k \in 1..Len(result) :
             \E c \in 1..Len(price_changes) :
                /\ result[k] = price_changes[c]
                /\ MatchesPriceChangeQuery(price_changes[c], lastCall.change_type,
                                           lastCall.since, None)
        /\ \A c \in 1..Len(price_changes) :
             (/\ price_changes[c].pct_num # NoKey
              /\ MatchesPriceChangeQuery(price_changes[c], lastCall.change_type,
                                         lastCall.since, None)) =>
                ((\E k \in 1..Len(result) : result[k] = price_changes[c])
                   <=> Abs(price_changes[c].pct_num)
                         >= Abs(lastCall.min_percentage) * price_changes[c].pct_den)

\* the pairs <<current, previous>> of snapshots of pid that are its two most
\* recent by scraped_at
RecentPairs(pid) ==
    LET ids == {i \in 1..Len(price_history) : price_history[i].product_id = pid}
    IN {pr \in ids \X ids :
          /\ pr[1] # pr[2]
          /\ price_history[pr[2]].scraped_at <= price_history[pr[1]].scraped_at
          /\ \A o \in ids \ {pr[1], pr[2]} :
                price_history[o].scraped_at <= price_history[pr[2]].scraped_at}

\* the alerts of type t returned for preference i
AlertsFor(i, t) ==
    {k \in 1..Len(result) : result[k].preference_id = i /\ result[k].alert_type = t}

\* the percentage drop from price prev to price cur exceeds thr percent
DropExceeds(prev, cur, thr) == prev > 0 /\ (prev - cur) * 100 > thr * prev

\* check_user_alerts returned, for every active preference, the alerts the
\* claim describes, where Present says which prices count as present and Set
\* which drop thresholds count as set
AlertsAsClaimed(Present(_), Set(_)) ==
    /\ \A k \in 1..Len(result) :
         /\ result[k].preference_id \in 1..Len(user_alert_preferences)
         /\ user_alert_preferences[result[k].preference_id].is_active
         /\ result[k].user_email = user_alert_preferences[result[k].preference_id].user_email
         /\ result[k].product_id = user_alert_preferences[result[k].preference_id].product_id
    /\ \A i \in 1..Len(user_alert_preferences) :
         LET pref == user_alert_preferences[i]
         IN pref.is_active =>
              IF RecentPairs(pref.product_id) = {}
              THEN AlertsFor(i, "price_drop") = {} /\ AlertsFor(i, "price_below_threshold") = {}
              ELSE \E pr \in RecentPairs(pref.product_id) :
                     LET cur == price_history[pr[1]].price
                         prev == price_history[pr[2]].price
                         both == Present(cur) /\ Present(prev)
                     IN /\ Cardinality(AlertsFor(i, "price_drop")) =
                             IF both /\ Set(pref.price_drop_threshold)
                                     /\ DropExceeds(prev, cur, pref.price_drop_threshold)
                             THEN 1 ELSE 0
                        /\ Cardinality(AlertsFor(i, "price_below_threshold")) =
                             IF both /\ pref.price_below_threshold # None
                                     /\ cur < pref.price_below_threshold
                             THEN 1 ELSE 0
                        /\ \A k \in AlertsFor(i, "price_drop")
                                     \cup AlertsFor(i, "price_below_threshold") :
                             result[k].current_price = cur

NotNone(x) == x # None

\* C12 as stated: for every active preference check_user_alerts returns a
\* price_drop alert exactly when the two most recent snapshots of its product
\* both have a non-null price and the percentage drop exceeds the drop
\* threshold, a price_below_threshold alert exactly when a cutoff is set and the
\* current price is under it, and no alert with fewer than two snapshots or a
\* null price in either.
C12_AlertsWhenPricesNonNull ==
    lastCall.op = "check_user_alerts" => AlertsAsClaimed(NotNone, NotNone)

\* C12 amended: the same with a price of zero counted as missing and a drop
\* threshold of zero counted as not set.
C12_AlertsWhenPricesNonZero ==
    lastCall.op = "check_user_alerts" => AlertsAsClaimed(Truthy, Truthy)

\* C12 witness: a check returned both a price_drop and a price_below_threshold
\* alert for a preference after a drop from 100 to 80
C12_Witness ==
    /\ lastCall.op = "check_user_alerts"
    /\ \E k \in 1..Len(result) :
         /\ result[k].alert_type = "price_drop"
         /\ result[k].previous_price = 100000 /\ result[k].current_price = 80000
    /\ \E k \in 1..Len(result) : result[k].alert_type = "price_below_threshold"

\* C13: a second record_sent_alert call with the same alert candidate as the
\* call before it leaves the alert history and every preference's alert_count
\* as the first call left them.
C13_RecordSentAlertIdempotent ==
    [][(/\ lastCall.op = "record_sent_alert" /\ lastCall'.op = "record_sent_alert"
        /\ lastCall'.alert = lastCall.alert)
       => (/\ alert_history' = alert_history
           /\ Len(user_alert_preferences') = Len(user_alert_preferences)
           /\ \A i \in 1..Len(user_alert_preferences) :
                user_alert_preferences'[i].alert_count
                  = user_alert_preferences[i].alert_count)]_vars

\* the number of snapshots of product pid
SnapshotsOf(pid) ==
    Cardinality({i \in 1..Len(price_history) : price_history[i].product_id = pid})

\* C14: check_user_alerts returns no alert whose (user, product, alert_type) has
\* been recorded with record_sent_alert since the product's last snapshot was
\* added.
C14_RecordedAlertNotReturnedAgain ==
    lastCall.op = "check_user_alerts" =>
        \A k \in 1..Len(result) :
            \A h \in 1..Len(alert_history) :
                ~(/\ alert_history[h].user_email = result[k].user_email
                  /\ alert_history[h].product_id = result[k].product_id
                  /\ alert_history[h].alert_type = result[k].alert_type
                  /\ alert_history[h].product_snapshots = SnapshotsOf(result[k].product_id))

\* the brands the records of the last batch supply for product pid, in order
SuppliedBrands(pid) ==
    SelectSeq([i \in 1..Len(lastCall.batch) |->
                  IF lastCall.batch[i].product_id = pid THEN lastCall.batch[i].brand
                  ELSE NoStr],
              LAMBDA b : b # NoStr)

\* C15: after a save, a product that existed before with a non-null brand has
\* the last non-null brand the batch supplied for it, and its previous brand if
\* the batch's records for it supplied none: an omitted field is never blanked.
C15_OmittedFieldKeepsValue ==
    (LastSave /\ outcome = "returned") =>
        \A e \in lastCall.pre_products :
            e.brand # NoStr =>
                \A d \in Matching(products, e.product_id) :
                    d.brand = IF SuppliedBrands(e.product_id) = <<>> THEN e.brand
                              ELSE SuppliedBrands(e.product_id)[Len(SuppliedBrands(e.product_id))]

\* the positive prices of the snapshots of product pid
PositivePrices(pid) ==
    {price_history[i].price : i \in {j \in 1..Len(price_history) :
                                        /\ price_history[j].product_id = pid
                                        /\ price_history[j].price # None
                                        /\ price_history[j].price > 0}}

\* C16: in the manager that keeps the aggregates, after any sequence of saves
\* the min_price and max_price of a product are the minimum and the maximum of
\* the positive prices of its snapshots.
C16_MinMaxOfPositivePrices ==
    mgr = "enhanced" =>
        \A d \in products :
            PositivePrices(d.product_id) # {} =>
                /\ \A x \in PositivePrices(d.product_id) : d.min_price <= x /\ x <= d.max_price
                /\ d.min_price \in PositivePrices(d.product_id)
                /\ d.max_price \in PositivePrices(d.product_id)

\* the records of batch b (store faults f) that manager m processes without any
\* store call raising: they carry a product_id, none of their store calls
\* raises and, in the manager whose loop a raise ends, none raised before
Successful(m, b, f) ==
    {i \in 1..Len(b) :
        /\ b[i].product_id # NoStr
        /\ f[i] = "none"
        /\ (m = "basic" => \A j \in 1..(i - 1) : f[j] = "none")}

\* C17: price_history is append-only: every step (a save with its detection and
\* aggregate update, an alert preference, check or recording) keeps the stored
\* snapshots unchanged as a prefix, and a save adds one snapshot for every
\* record processed successfully and at most one per record with a product_id.
C17_SnapshotsAppendOnly ==
    [][/\ Len(price_history') >= Len(price_history)
       /\ SubSeq(price_history', 1, Len(price_history)) = price_history
       /\ (now' # now =>
             /\ lastCall'.op = "save_products"
             /\ Len(price_history') - Len(price_history)
                  >= Cardinality(Successful(mgr, lastCall'.batch, lastCall'.faults))
             /\ Len(price_history') - Len(price_history)
                  <= Cardinality({i \in 1..Len(lastCall'.batch) :
                                     lastCall'.batch[i].product_id # NoStr}))
       /\ (now' = now => price_history' = price_history)]_vars

\* C17 witness: a record was saved without error, adding a third snapshot of a
\* product, after an alert on that product had been recorded
C17_Witness ==
    /\ LastSave /\ lastCall.faults = <<"none">>
    /\ lastCall.batch[1].product_id = "p1"
    /\ Len(price_history) = lastCall.pre_nhist + 1
    /\ Len(price_history) = 3
    /\ Len(alert_history) >= 1

\* the last unified save_product left its record in the SQLite backend: the
\* products row of its (id, source) carries its data and price_history has one
\* more row, for it
PersistedInSqlite ==
    /\ "sqlite" \in backends
    /\ Len(sqlite_price_history) = lastCall.pre_nsqlite + 1
    /\ sqlite_price_history[Len(sqlite_price_history)].product_id = lastCall.record.product_id
    /\ sqlite_price_history[Len(sqlite_price_history)].price = lastCall.record.price
    /\ \E r \in sqlite_products :
         /\ r.id = lastCall.record.product_id /\ r.source = lastCall.record.source
         /\ r.price = lastCall.record.price /\ r.name = lastCall.record.name

\* the last unified save_product left its record in the MongoDB backend
PersistedInMongo ==
    /\ "mongodb" \in backends
    /\ \/ Len(price_history) > lastCall.pre_nhist
       \/ products # lastCall.pre_products

\* C18: the unified save_product returns True exactly when the product was
\* persisted in at least one configured backend.
C18_TrueIffPersisted ==
    lastCall.op = "save_product" => (success <=> (PersistedInMongo \/ PersistedInSqlite))

\* the position of snapshot id among the snapshots of its product
Rank(hist, id) ==
    Cardinality({j \in 1..id : hist[j].product_id = hist[id].product_id})

\* the snapshots of product pid in insertion order, their _id left out
SnapshotsOfProduct(hist, pid) ==
    LET own == SelectSeq(hist, LAMBDA h : h.product_id = pid)
    IN [k \in 1..Len(own) |-> [own[k] EXCEPT !.id = 0]]

\* the change records of product pid in insertion order, the snapshots they
\* name given by position instead of _id
ChangesOfProduct(changes, hist, pid) ==
    LET own == SelectSeq(changes, LAMBDA c : c.product_id = pid)
    IN [k \in 1..Len(own) |->
           [own[k] EXCEPT
              !.previous_scrape_id = IF @ = NoKey THEN NoKey ELSE Rank(hist, @),
              !.current_scrape_id = IF @ = NoKey THEN NoKey ELSE Rank(hist, @)]]

\* the collections after save_products(<<ra>>) then save_products(<<rb>>) run
\* one after the other from the state the concurrent calls started in
Sequential(ra, rb, tieA, tieB) ==
    LET st0 == [products |-> parPre.products, hist |-> parPre.hist,
                changes |-> parPre.changes, stats |-> NewStats(mgr), raised |-> FALSE]
        st1 == SaveLoop(mgr, st0, <<ra>>, <<"none">>, 1, SourceOfBatch(<<ra>>),
                        parPre.clock, tieA)
    IN SaveLoop(mgr, [st1 EXCEPT !.stats = NewStats(mgr), !.raised = FALSE],
                <<rb>>, <<"none">>, 1, SourceOfBatch(<<rb>>), parPre.clock, tieB)

\* the stored products (with their aggregates), snapshots and change records are
\* those of st, _ids aside
SameDatabase(st) ==
    /\ products = st.products
    /\ \A pid \in Pids :
         /\ SnapshotsOfProduct(price_history, pid) = SnapshotsOfProduct(st.hist, pid)
         /\ ChangesOfProduct(price_changes, price_history, pid)
              = ChangesOfProduct(st.changes, st.hist, pid)

BothDone == lastCall.op = "concurrent_saves" /\ \A p \in Procs : procs[p].pc = "done"

\* C19: when two saves for different product_ids have run with their store
\* operations interleaved in any order, the products, aggregates, snapshots and
\* change records are those of running the two saves one after the other.
C19_DistinctProductsParallel ==
    BothDone =>
        \E tieA \in Ties, tieB \in Ties :
            \/ SameDatabase(Sequential(procs[1].rec, procs[2].rec, tieA, tieB))
            \/ SameDatabase(Sequential(procs[2].rec, procs[1].rec, tieA, tieB))

\* C19 witness: two concurrent saves finished after interleaving: the first
\* call's snapshot was inserted before the second's, its change record after,
\* and both products had a snapshot before
C19_Witness ==
    /\ BothDone
    /\ procs[1].new.id < procs[2].new.id
    /\ procs[1].chg # <<>> /\ procs[2].chg # <<>>
    /\ \E c1, c2 \in 1..Len(price_changes) :
         /\ c2 < c1
         /\ price_changes[c1].product_id = procs[1].rec.product_id
         /\ price_changes[c2].product_id = procs[2].rec.product_id
         /\ price_changes[c1].current_scrape_id = procs[1].new.id
         /\ price_changes[c2].current_scrape_id = procs[2].new.id

\* C20: the document made by normalizing a document the normalizer returned is
\* that document, timestamps aside: categories, quality_score and every other
\* field are unchanged by the second pass.
C20_NormalizationIdempotent ==
    Len(normalized) = 2 =>
        [normalized[2] EXCEPT !.last_scraped_at = 0, !.last_updated_at = 0]
          = [normalized[1] EXCEPT !.last_scraped_at = 0, !.last_updated_at = 0]

\* the records of the last batch whose price is a range text "low - high"
RangePriced ==
    {i \in 1..Len(lastCall.batch) :
        /\ IsText(lastCall.batch[i].price)
        /\ HasRangeSeparator(TextOf(lastCall.batch[i].price))}

\* C21: a record whose price is given as range text "low - high" is saved as a
\* snapshot whose price is the numeric lower bound, and is not counted as an
\* error: the call returns, every record of the batch has its snapshot, the
\* snapshot of a range-priced record holds the lower bound, no error is counted.
C21_RangePriceLowerBound ==
    (LastSave /\ RangePriced # {}) =>
        /\ outcome = "returned"
        /\ Len(price_history) = lastCall.pre_nhist + Len(lastCall.batch)
        /\ \A i \in RangePriced :
              price_history[lastCall.pre_nhist + i].price
                  = ExtractPrice(TextOf(lastCall.batch[i].price))
        /\ stats.errors \in {0, NoKey}

\* the tier of a move from old to new: |(new - old) / old * 100| against 20 and 5
TierOf(old, new) ==
    IF old > 0 /\ Abs(new - old) * 100 > 20 * old THEN "high"
    ELSE IF old > 0 /\ Abs(new - old) * 100 > 5 * old THEN "medium"
    ELSE "low"

\* C22: every increase or decrease change record carries the significance tier
\* of its percentage change (high above 20, medium above 5 up to 20, low
\* otherwise), and a move of any tier is recorded: a snapshot whose price
\* differs by 0.01 or more from the price of the snapshot before it has an
\* increase or decrease record.
C22_SignificanceTier ==
    /\ \A c \in 1..Len(price_changes) :
          price_changes[c].change_type \in {"increase", "decrease"} =>
              price_changes[c].significance
                  = TierOf(price_changes[c].previous_price, price_changes[c].current_price)
    /\ \A k \in 1..Len(price_history) : \A j \in LatestEarlier(k) :
          (/\ Cardinality(LatestEarlier(k)) = 1
           /\ price_history[j].price # None /\ price_history[k].price # None
           /\ Abs(price_history[k].price - price_history[j].price) >= Epsilon) =>
              \E c \in ChangesFor(k) :
                  price_changes[c].change_type \in {"increase", "decrease"}

\* C23: a snapshot whose price and the price of the one snapshot before it are
\* both present and differ by less than 0.01 gets no increase or decrease change
\* record.
C23_NoChangeWithinEpsilon ==
    \A k \in 1..Len(price_history) : \A j \in LatestEarlier(k) :
        (/\ Cardinality(LatestEarlier(k)) = 1
         /\ price_history[j].price # None /\ price_history[k].price # None
         /\ Abs(price_history[k].price - price_history[j].price) < Epsilon) =>
            \A c \in ChangesFor(k) :
                price_changes[c].change_type \notin {"increase", "decrease"}

\* the fields the score looks at: an essential field weighs 1, a bonus field 0.5
EssentialStrFields == {"name", "category", "brand", "url"}
EssentialNumFields == {"price"}
BonusStrFields == {"image_url"}
BonusNumFields == {"rating", "review_count", "discount"}

\* twice the weight of the fields of pd that are present
PresentWeightHalves(pd) ==
    2 * Cardinality({f \in EssentialStrFields : pd[f] # NoStr})
    + 2 * Cardinality({f \in EssentialNumFields : pd[f] # None})
    + Cardinality({f \in BonusStrFields : pd[f] # NoStr})
    + Cardinality({f \in BonusNumFields : pd[f] # None})

\* twice the weight of all nine fields
TotalWeightHalves ==
    2 * Cardinality(EssentialStrFields \cup EssentialNumFields)
    + Cardinality(BonusStrFields \cup BonusNumFields)

\* C24: the quality_score of a normalized record is the weight of its present
\* fields (essential 1 each, bonus 0.5 each) over the total possible weight; it
\* lies in [0, 1], and is exactly 1 when all nine fields are present.
C24_QualityScoreOverTotalWeight ==
    Len(normalized) = 1 =>
        /\ normalized[1].qs_num * TotalWeightHalves
               = PresentWeightHalves(raw_record) * normalized[1].qs_den
        /\ 0 <= normalized[1].qs_num /\ normalized[1].qs_num <= normalized[1].qs_den
        /\ (PresentWeightHalves(raw_record) = TotalWeightHalves =>
               normalized[1].qs_num = normalized[1].qs_den)

\* the last call was SQLiteManager.save_product and it returned
SqliteReturned == lastCall.op = "sqlite_save_product" /\ outcome = "returned"

\* C25: SQLiteManager.save_product is all-or-nothing.  When it returns False
\* neither the products table nor the price_history table has changed; when it
\* returns True the row of (id, source) holds the record, the other product rows
\* are as they were, and price_history has exactly one more row, the record's.
C25_SqliteSaveAllOrNothing ==
    SqliteReturned =>
        IF success
        THEN /\ Cardinality(SqliteMatching(sqlite_products, lastCall.record.product_id,
                                          lastCall.record.source)) = 1
             /\ \A r \in SqliteMatching(sqlite_products, lastCall.record.product_id,
                                        lastCall.record.source) :
                    /\ r.name = lastCall.record.name /\ r.price = lastCall.record.price
                    /\ r.url = lastCall.record.url
             /\ {r \in sqlite_products : r.id # lastCall.record.product_id
                                          \/ r.source # lastCall.record.source}
                  = {r \in lastCall.pre_sqlite_products :
                        r.id # lastCall.record.product_id
                        \/ r.source # lastCall.record.source}
             /\ Len(sqlite_price_history) = Len(lastCall.pre_sqlite_price_history) + 1
             /\ SubSeq(sqlite_price_history, 1, Len(lastCall.pre_sqlite_price_history))
                  = lastCall.pre_sqlite_price_history
             /\ sqlite_price_history[Len(sqlite_price_history)].product_id
                  = lastCall.record.product_id
             /\ sqlite_price_history[Len(sqlite_price_history)].source
                  = lastCall.record.source
             /\ sqlite_price_history[Len(sqlite_price_history)].price
                  = lastCall.record.price
        ELSE /\ sqlite_products = lastCall.pre_sqlite_products
             /\ sqlite_price_history = lastCall.pre_sqlite_price_history

\* C25 witness: a save returned False because the price_history insert failed
\* after the row of an existing product had been rewritten with another price,
\* and the table still holds the old row
C25_Witness ==
    /\ SqliteReturned /\ ~success
    /\ lastCall.faults = <<"history">>
    /\ \E r \in sqlite_products :
          /\ r.id = lastCall.record.product_id /\ r.source = lastCall.record.source
          /\ r.price # lastCall.record.price
    /\ Len(sqlite_price_history) > 0

\* the requests get_page has sent so far
Sent == Len(fetch.server)

\* C26: get_page sends at most max_retries requests and then returns; it sends
\* no request after one answered 404; it returns None whenever no request it
\* sent produced a valid page.
C26_GetPageBoundedRetries ==
    /\ [](/\ Sent <= fetch.max_retries
          /\ \A i \in 1..Sent : fetch.server[i] = "404" => i = Sent
          /\ (fetch.pc = "returned" =>
                 /\ fetch.ret \in {"None", "soup"}
                 /\ ((\A i \in 1..Sent : fetch.server[i] # "page") => fetch.ret = "None")))
    /\ ((fetch.pc = "loop") ~> (fetch.pc = "returned"))

\* C26 witness: a call allowed three attempts whose second request was
\* answered 404 after a server error, and which returned None after these two
\* requests
C26_Witness ==
    /\ fetch.pc = "returned"
    /\ fetch.max_retries = 3
    /\ fetch.server = <<"500", "404">>
    /\ fetch.ret = "None"

\* the active preferences of the user with this e-mail
ActivePrefs(email) ==
    {i \in 1..Len(user_alert_preferences) :
        /\ user_alert_preferences[i].user_email = email
        /\ user_alert_preferences[i].is_active}

\* C27: whatever save_user_alert_preference and remove_user_alert_preference
\* calls were made, every user's alert_count is the number of the user's active
\* alert preferences, and is not negative.
C27_AlertCountIsActivePreferences ==
    \A u \in users :
        /\ u.alert_count = Cardinality(ActivePrefs(u.email))
        /\ u.alert_count >= 0

\* the preferences stored for the pair (user, product) of the last call
PrefsOfLastCall ==
    PrefsOf(user_alert_preferences, Lower(lastCall.user_email), lastCall.product_id)

\* preference i, inactive now, is active after the step
Reactivated(i) ==
    /\ ~user_alert_preferences[i].is_active
    /\ i <= Len(user_alert_preferences')
    /\ user_alert_preferences'[i].is_active

\* C30: once remove_user_alert_preference has succeeded for a pair (user,
\* product), the pair's preference is inactive; it stays inactive, whatever is
\* saved, until save_user_alert_preference is called for the pair; the alerts
\* check_user_alerts returns all belong to active preferences, so none is
\* returned for the pair meanwhile; and a pair never has two preferences.
C30_RemovedPreferenceNeverAlerts ==
    /\ []((lastCall.op = "remove_user_alert_preference" /\ success) =>
            /\ PrefsOfLastCall # {}
            /\ \A i \in PrefsOfLastCall : ~user_alert_preferences[i].is_active)
    /\ [][\A i \in 1..Len(user_alert_preferences) :
            Reactivated(i) =>
                /\ lastCall'.op = "save_user_alert_preference"
                /\ Lower(lastCall'.user_email) = user_alert_preferences[i].user_email
                /\ lastCall'.product_id = user_alert_preferences[i].product_id]_vars
    /\ [](lastCall.op = "check_user_alerts" =>
            \A k \in 1..Len(result) :
                \E i \in PrefsOf(user_alert_preferences, result[k].user_email,
                                  result[k].product_id) :
                    user_alert_preferences[i].is_active)
    /\ [](\A i, j \in 1..Len(user_alert_preferences) :
            (/\ user_alert_preferences[i].user_email = user_alert_preferences[j].user_email
             /\ user_alert_preferences[i].product_id = user_alert_preferences[j].product_id)
                => i = j)

\* C30 witness: the preference was removed, the price then fell from 100 to 80
\* (more than the 10% of the preference), and check_user_alerts returned nothing
C30_Witness ==
    /\ lastCall.op = "check_user_alerts"
    /\ result = <<>>
    /\ Len(user_alert_preferences) = 1
    /\ ~user_alert_preferences[1].is_active
    /\ user_alert_preferences[1].updated_at = 1
    /\ Len(price_history) = 2
    /\ price_history[1].price = 100000 /\ price_history[2].price = 80000

\* C28: in the statistics save_products_enhanced returns, every record of the
\* batch is counted once among new_products, updated_products and errors, and
\* price_changes_detected <= new_price_records <= new_products +
\* updated_products.
C28_EveryRecordCountedOnce ==
    (LastSave /\ mgr = "enhanced" /\ outcome = "returned") =>
        /\ stats.new_products + stats.updated_products + stats.errors
              = Len(lastCall.batch)
        /\ stats.price_changes_detected <= stats.new_price_records
        /\ stats.new_price_records <= stats.new_products + stats.updated_products

\* the new_product change records of product pid
NewProductChanges(pid) ==
    {c \in 1..Len(price_changes) :
        /\ price_changes[c].product_id = pid
        /\ price_changes[c].change_type = "new_product"}

\* the snapshots of product pid, by _id
SnapshotIds(pid) == {k \in 1..Len(price_history) : price_history[k].product_id = pid}

\* C29: after any sequence of save_products calls made one after the other,
\* price_changes holds at most one new_product record per product_id, and a
\* product has one only if its earliest-inserted snapshot has a price (the
\* record is about that snapshot).
C29_OneNewProductPerProduct ==
    \A pid \in Pids :
        /\ Cardinality(NewProductChanges(pid)) <= 1
        /\ \A c \in NewProductChanges(pid) :
              \E k \in SnapshotIds(pid) :
                  /\ \A j \in SnapshotIds(pid) : k <= j
                  /\ price_history[k].price # None
                  /\ price_changes[c].current_scrape_id = k

\* C29 witness: p1 got its new_product record with its first snapshot, while
\* p2, first saved without a price and saved with one in the same batch, has
\* none
C29_Witness ==
    /\ Cardinality(NewProductChanges("p1")) = 1
    /\ NewProductChanges("p2") = {}
    /\ \E j, k \in SnapshotIds("p2") :
          /\ j < k /\ price_history[j].scraped_at = price_history[k].scraped_at
          /\ price_history[j].price = None /\ price_history[k].price = 100000
====
